---- MODULE Spec2Model ----
(***************************************************************************)
(* TaskMaster <-> Monday.com synchronisation core: the sync state manager  *)
(* (mapping store), the push reconciler and the pull reconciler.           *)
(*                                                                         *)
(* JavaScript values are modelled as follows.                              *)
(*  - a local task id is a record [n, str]: the number n (str = FALSE) or  *)
(*    the string "n" (str = TRUE); n = 0 is a missing (falsy) id;          *)
(*  - a Monday.com item id is always a string; it is modelled by a         *)
(*    positive number, 0 being null/undefined;                             *)
(*  - a text field is a string, Undef being undefined; "" and Undef are    *)
(*    the falsy texts;                                                     *)
(*  - an object whose key order is observed (syncState.items) is a         *)
(*    sequence of entries in insertion order; an object that is only       *)
(*    looked up by key is a function.                                      *)
(***************************************************************************)
EXTENDS Integers, Sequences, FiniteSets, TLC

\* ----------------------------------------------------------------- bounds
MaxRemote == 3
MaxClock == 3

\* ------------------------------------------------------------- JS values
Num(n) == [n |-> n, str |-> FALSE]
Str(n) == [n |-> n, str |-> TRUE]
ToStr(x) == [n |-> x.n, str |-> TRUE]
Truthy(x) == x.n # 0
NoId == Num(0)
Undef == "<undefined>"
TruthyText(s) == s # "" /\ s # Undef
EmptyMap == [k \in {} |-> 0]
MapPut(f, k, v) == (k :> v) @@ f
MapDel(f, k) == [x \in (DOMAIN f) \ {k} |-> f[x]]
RemoveAt(s, i) == SubSeq(s, 1, i - 1) \o SubSeq(s, i + 1, Len(s))
SeqHas(s, x) == \E i \in DOMAIN s : s[i] = x
IndexOf(s, x) ==
  IF SeqHas(s, x)
  THEN CHOOSE i \in DOMAIN s : s[i] = x /\ \A j \in 1..(i - 1) : s[j] # x
  ELSE 0

\* ------------------------------------------------------ sync state manager
getEmptySyncState ==
  [ lastSync |-> 0,
    taskMappings |-> <<>>,
    mondayToTaskMaster |-> EmptyMap,
    taskMasterToMonday |-> EmptyMap,
    items |-> <<>> ]

NoFile == [exists |-> FALSE, state |-> getEmptySyncState]

\* the state readSyncState returns for a file (absent: a new empty state)
StateOf(file) == IF file.exists THEN file.state ELSE getEmptySyncState

\* what writeSyncState persists: the state with lastSync refreshed
Persisted(s, now) == [exists |-> TRUE, state |-> [s EXCEPT !.lastSync = now]]

\* readSyncState on an absent file writes a new empty state through a nested
\* writeSyncState; the nested acquireLock meets the lock readSyncState holds,
\* so the write either times out (file stays absent) or goes through after the
\* outer lock was reclaimed as stale.
AfterRead(file, now) ==
  IF file.exists THEN {file} ELSE {file, Persisted(getEmptySyncState, now)}

ItemsIndex(items, r) ==
  IF \E i \in DOMAIN items : items[i].id = r
  THEN CHOOSE i \in DOMAIN items : items[i].id = r
  ELSE 0

MappingIndex(tm, r) ==
  IF \E i \in DOMAIN tm : tm[i].mondayItemId = r
  THEN CHOOSE i \in DOMAIN tm :
         tm[i].mondayItemId = r /\ \A j \in 1..(i - 1) : tm[j].mondayItemId # r
  ELSE 0

\* an upsert that leaves the state as it was
UpsertNothing(s, r, l, ts) == s

\* the in-memory modification of updateSyncedTimestamp
Upsert(s, r, l, ts) ==
  LET i == ItemsIndex(s.items, r)
      e == [id |-> r, taskmasterTaskId |-> l, timestamp |-> ts]
      m == MappingIndex(s.taskMappings, r)
      me == [mondayItemId |-> r, taskmasterTaskId |-> ToStr(l), timestamp |-> ts]
      old == IF l.n \in DOMAIN s.taskMasterToMonday
             THEN s.taskMasterToMonday[l.n] ELSE <<>>
  IN [s EXCEPT
        !.items = IF i = 0 THEN Append(s.items, e) ELSE [s.items EXCEPT ![i] = e],
        !.taskMappings = IF m = 0 THEN Append(s.taskMappings, me)
                         ELSE [s.taskMappings EXCEPT ![m] = me],
        !.mondayToTaskMaster = MapPut(s.mondayToTaskMaster, r, l),
        !.taskMasterToMonday =
            MapPut(s.taskMasterToMonday, l.n,
                   IF SeqHas(old, r) THEN old ELSE Append(old, r))]

\* removeMondayItem's in-memory modification, for an item present in items
DropNothing(s, r) == s

DropItem(s, r) ==
  LET i == ItemsIndex(s.items, r)
      l == s.items[i].taskmasterTaskId
      m == MappingIndex(s.taskMappings, r)
      arr == IF Truthy(l) /\ l.n \in DOMAIN s.taskMasterToMonday
             THEN s.taskMasterToMonday[l.n] ELSE <<>>
      k == IndexOf(arr, r)
      arr2 == IF k = 0 THEN arr ELSE RemoveAt(arr, k)
  IN [s EXCEPT
        !.items = RemoveAt(s.items, i),
        !.mondayToTaskMaster =
            IF r \in DOMAIN s.mondayToTaskMaster /\ Truthy(s.mondayToTaskMaster[r])
            THEN MapDel(s.mondayToTaskMaster, r) ELSE s.mondayToTaskMaster,
        !.taskMasterToMonday =
            IF k = 0 THEN s.taskMasterToMonday
            ELSE IF Len(arr2) = 0 THEN MapDel(s.taskMasterToMonday, l.n)
            ELSE MapPut(s.taskMasterToMonday, l.n, arr2),
        !.taskMappings = IF m = 0 THEN s.taskMappings
                         ELSE RemoveAt(s.taskMappings, m)]

\* removeMondayItem(r): "throw" for a falsy id, "absent" (returns false, no
\* write) when items has no entry, else "removed" with the new file
removeMondayItem(file, r, now) ==
  IF r = 0 THEN [outcome |-> "throw", file |-> file]
  ELSE IF ItemsIndex(StateOf(file).items, r) = 0
       THEN [outcome |-> "absent", file |-> file]
       ELSE [outcome |-> "removed",
             file |-> Persisted(DropItem(StateOf(file), r), now)]

updateSyncedTimestamp(file, r, l, now) ==
  Persisted(Upsert(StateOf(file), r, l, now), now)

getMondayItemIdsForTask(s, l) ==
  LET Mine(e) == e.taskmasterTaskId = l
      old == SelectSeq(s.items, Mine)
  IN IF Len(old) > 0 THEN [i \in 1..Len(old) |-> old[i].id]
     ELSE IF l.n \in DOMAIN s.taskMasterToMonday
          THEN s.taskMasterToMonday[l.n]
          ELSE <<>>

getLastSyncedTimestamp(s, r) ==
  LET i == ItemsIndex(s.items, r)
      m == MappingIndex(s.taskMappings, r)
  IN IF i # 0 THEN s.items[i].timestamp
     ELSE IF m # 0 /\ s.taskMappings[m].timestamp # 0
          THEN s.taskMappings[m].timestamp
          ELSE 0

\* the pairs (item, task number) the store holds, in any of its views
MappedPairs(s) ==
  {<<s.items[i].id, s.items[i].taskmasterTaskId.n>> : i \in DOMAIN s.items}
  \cup {<<s.taskMappings[i].mondayItemId, s.taskMappings[i].taskmasterTaskId.n>> :
          i \in DOMAIN s.taskMappings}
  \cup {<<r, s.mondayToTaskMaster[r].n>> : r \in DOMAIN s.mondayToTaskMaster}

\* ------------------------------------------------------------ configuration
\* config.status_mappings / priority_mappings (the defaults of configParser)
StatusMappings == [x \in {"pending", "in-progress", "done"} |-> x]
PriorityMappings == [x \in {"high", "medium", "low"} |-> x]
\* the groups of the board, and options.mondayGroupIds
BoardGroups == <<"g1", "g2">>
ConfigGroupIds == <<"g0", "g2", "g1">>

\* ------------------------------------------------------------- local tasks
Task(id, title, mid) ==
  [ id |-> id, title |-> title, status |-> "pending", priority |-> "medium",
    dependencies |-> <<>>, description |-> "desc", details |-> "det",
    testStrategy |-> "ts", monday_item_id |-> mid, subtasks |-> <<"sub">> ]

\* --------------------------------------------------------- the remote board
NoItem ==
  [ exists |-> FALSE, name |-> "", group |-> "", updated_at |-> 0, taskId |-> 0,
    status |-> "", priority |-> "", dependencies |-> <<>>, description |-> "",
    details |-> "", testStrategy |-> "" ]

Label(mappings, v) == IF v \in DOMAIN mappings THEN mappings[v] ELSE v

\* mapTaskToColumnValues: a column is set only for a truthy field; an unset
\* column is 0, Undef or <<>>. join(', ') keeps the numbers of the ids only.
mapTaskToColumnValues(task) ==
  [ taskId |-> IF Truthy(task.id) THEN task.id.n ELSE 0,
    status |-> IF TruthyText(task.status)
               THEN Label(StatusMappings, task.status) ELSE Undef,
    priority |-> IF TruthyText(task.priority)
                 THEN Label(PriorityMappings, task.priority) ELSE Undef,
    dependencies |-> [i \in 1..Len(task.dependencies) |-> task.dependencies[i].n],
    description |-> IF TruthyText(task.description) THEN task.description ELSE Undef,
    details |-> IF TruthyText(task.details) THEN task.details ELSE Undef,
    testStrategy |-> IF TruthyText(task.testStrategy) THEN task.testStrategy ELSE Undef ]

SetText(old, v) == IF v = Undef THEN old ELSE v

\* change_multiple_column_values: the columns given are overwritten
ApplyColumns(item, cv, now) ==
  [ item EXCEPT
      !.taskId = IF cv.taskId = 0 THEN @ ELSE cv.taskId,
      !.status = SetText(@, cv.status),
      !.priority = SetText(@, cv.priority),
      !.dependencies = IF cv.dependencies = <<>> THEN @ ELSE cv.dependencies,
      !.description = SetText(@, cv.description),
      !.details = SetText(@, cv.details),
      !.testStrategy = SetText(@, cv.testStrategy),
      !.updated_at = now ]

\* create_item
NewItem(group, name, cv, now) ==
  ApplyColumns([NoItem EXCEPT !.exists = TRUE, !.name = name, !.group = group],
               cv, now)

\* getValidGroupIds: the configured ids that are groups of the board, in the
\* configured order ('all': every group of the board)
UnfilteredGroups(ids, groups) == ids

FilterGroups(ids, groups) ==
  LET OnBoard(g) == SeqHas(groups, g) IN SelectSeq(ids, OnBoard)

getValidGroupIds(ids, groups) ==
  IF Len(ids) = 1 /\ ids[1] = "all" THEN groups ELSE FilterGroups(ids, groups)

\* ------------------------------------------------------------------ state
VARIABLES
  tasksFile,    \* tasks.json: the sequence of local tasks
  syncFile,     \* the persisted sync state: [exists, state]
  board,        \* the Monday.com board: item id -> item
  nextItemId,   \* the id Monday.com gives the next created item
  clock,        \* Date.now()
  pc,           \* where the current run is
  opts,         \* the options of the current run
  tasks,        \* the run's in-memory task array
  idx,          \* push: the index of the task processed next
  results,      \* the run's results object
  calls,        \* the remote mutations the run has requested
  storeOps,     \* the mapping-store mutations the run has performed
  taskWrites,   \* the number of times the run has written tasks.json
  start,        \* the stores as they were when the run started
  prev,         \* the push run that ended just before this one started
  lockFile,     \* the lock file next to the sync state file
  proc,         \* the processes that use the sync state manager directly
  pusher,       \* the processes that run pushSync side by side
  tasksCond,    \* tasks.json on disk: "ok", "absent" or "malformed"
  clientOpts,   \* the Monday client: maxRetries, retryDelayMs, maxBatchSize
  batchQueue,   \* the Monday client: the mutations waiting for a flush
  handles,      \* the promises addToBatch has returned
  requests      \* the executeQuery calls made, in flight or ended

worldVars == <<tasksFile, syncFile, board, nextItemId, clock>>
runVars == <<pc, opts, tasks, idx, results, calls, storeOps, taskWrites, start, prev>>
clientVars == <<clientOpts, batchQueue, handles, requests>>
storeVars == <<lockFile, proc, pusher, tasksCond, clientVars>>
vars == <<worldVars, runVars, storeVars>>

RemoteIds == 1..MaxRemote
\* the processes that call the sync state manager side by side
Procs == {1, 2}
NoLock == [held |-> FALSE, id |-> <<0, 0>>, mtime |-> 0]
IdleProc ==
  [pc |-> "idle", phase |-> "r", mem |-> getEmptySyncState,
   cache |-> getEmptySyncState, cacheTs |-> 0, startTime |-> 0, lockSeq |-> 0,
   ops |-> 0, returned |-> 0, thrown |-> 0]
ItemOnBoard(bd, r) == r \in DOMAIN bd /\ bd[r].exists

\* ------------------------------------------------------- the Monday client
DEFAULT_MAX_RETRIES == 3
DEFAULT_RETRY_DELAY_MS == 1000
DEFAULT_MAX_BATCH_SIZE == 10
MaxHandles == 3
MaxRequests == 2
Handles == 1..MaxHandles

\* options.x || DEFAULT_X
OrDefault(v, d) == IF v = 0 THEN d ELSE v
createMondayClient(options) ==
  [maxRetries |-> OrDefault(options.maxRetries, DEFAULT_MAX_RETRIES),
   retryDelayMs |-> OrDefault(options.retryDelayMs, DEFAULT_RETRY_DELAY_MS),
   maxBatchSize |-> OrDefault(options.maxBatchSize, DEFAULT_MAX_BATCH_SIZE)]
NoOptions == [maxRetries |-> 0, retryDelayMs |-> 0, maxBatchSize |-> 0]

\* null as the value of a promise; no error
Null == [req |-> 0, key |-> <<>>]
NoError == <<>>
NoHandle == [state |-> "none", value |-> Null, error |-> NoError]
InitClient ==
  /\ clientOpts = createMondayClient(NoOptions)
  /\ batchQueue = <<>>
  /\ handles = [h \in Handles |-> NoHandle]
  /\ requests = <<>>

\* -------------------------------------------------------------- push sync
DryRunId == 0 - 1
FailPoints == {"none", "getItem", "rename", "update", "create"}
EmptyPushResults ==
  [created |-> <<>>, updated |-> <<>>, recreated |-> <<>>, deleted |-> <<>>,
   errors |-> <<>>]
Call(op, r, g, ok) == [op |-> op, item |-> r, group |-> g, ok |-> ok]
StoreOp(op, r) == [op |-> op, item |-> r]
Out(action, r, err, file, bd, nid, cs, ops) ==
  [action |-> action, mondayItemId |-> r, error |-> err, file |-> file,
   board |-> bd, nextItemId |-> nid, calls |-> cs, storeOps |-> ops]

\* const dryRunOption = syncOptions.dryRun !== undefined ? syncOptions.dryRun : dryRun
dryRunOption(o) == IF o.runDryRun = "unset" THEN o.instDryRun ELSE o.runDryRun = "on"

\* createMondayItem; its dry-run test reads the instance's dryRun
createMondayItem(task, group, fail, file, bd, nid, now, dry) ==
  LET cv == mapTaskToColumnValues(task) IN
  IF dry THEN Out("created", DryRunId, "", file, bd, nid, <<>>, <<>>)
  ELSE IF fail = "create" \/ nid > MaxRemote
  THEN Out("error", 0, "Failed to create item", file, bd, nid,
           <<Call("create", 0, group, FALSE)>>, <<>>)
  ELSE Out("created", nid, "",
           updateSyncedTimestamp(file, nid, task.id, now),
           [bd EXCEPT ![nid] = NewItem(group, task.title, cv, now)],
           nid + 1,
           <<Call("create", nid, group, TRUE)>>,
           <<StoreOp("upsert", nid)>>)

\* updateMondayItem; its dry-run test reads the instance's dryRun. No mapping
\* entry carries a mondayUpdateId (nothing calls storeUpdateIdForTask), so the
\* clean-up of a previous update never runs.
updateMondayItem(task, r, fail, file, bd, nid, now, dry) ==
  LET cv == mapTaskToColumnValues(task)
      renamed == bd[r].name # task.title
      bd1 == IF renamed
             THEN [bd EXCEPT ![r].name = task.title, ![r].updated_at = now]
             ELSE bd
      c1 == IF renamed THEN <<Call("rename", r, "", TRUE)>> ELSE <<>>
  IN
  IF dry THEN Out("updated", r, "", file, bd, nid, <<>>, <<>>)
  ELSE IF ~ItemOnBoard(bd, r) THEN
    Out("error", 0, "Item not found", file, bd, nid, <<>>, <<>>)
  ELSE IF fail = "getItem" THEN
    Out("error", 0, "getItem failed", file, bd, nid, <<>>, <<>>)
  ELSE IF renamed /\ fail = "rename" THEN
    Out("error", 0, "Failed to update name", file, bd, nid,
        <<Call("rename", r, "", FALSE)>>, <<>>)
  ELSE IF fail = "update" THEN
    Out("error", 0, "Failed to update item column values", file, bd1, nid,
        c1 \o <<Call("update", r, "", FALSE)>>, <<>>)
  ELSE
    Out("updated", r, "",
        updateSyncedTimestamp(file, r, task.id, now),
        [bd1 EXCEPT ![r] = ApplyColumns(@, cv, now)],
        nid,
        c1 \o <<Call("update", r, "", TRUE)>>,
        <<StoreOp("upsert", r)>>)

\* syncTask: an exception of any step becomes an 'error' result
syncTask(task, groups, fail, file, bd, nid, now, dry) ==
  LET ids == getMondayItemIdsForTask(StateOf(file), task.id) IN
  IF ~Truthy(task.id) THEN
    Out("error", 0, "Task is invalid (missing ID)", file, bd, nid, <<>>, <<>>)
  ELSE IF Len(ids) > 0 THEN
    updateMondayItem(task, ids[1], fail, file, bd, nid, now, dry)
  ELSE IF Len(groups) = 0 THEN
    Out("error", 0, "No valid group IDs provided", file, bd, nid, <<>>, <<>>)
  ELSE createMondayItem(task, groups[1], fail, file, bd, nid, now, dry)

\* pushSync, lines 518-536: a task whose monday_item_id is not on the board
\* loses it (in memory), and the sync state is asked to remove
\* task.monday_item_id, which is null by then
staleItemCheck(task, file, bd, checkFails, now) ==
  IF task.monday_item_id = 0 \/ checkFails \/ ItemOnBoard(bd, task.monday_item_id)
  THEN [task |-> task, file |-> file, storeOps |-> <<>>]
  ELSE LET t2 == [task EXCEPT !.monday_item_id = 0]
           rm == removeMondayItem(file, t2.monday_item_id, now)
       IN [task |-> t2, file |-> rm.file,
           storeOps |-> IF rm.outcome = "removed"
                        THEN <<StoreOp("remove", t2.monday_item_id)>> ELSE <<>>]

\* pushSync, lines 551-577: the result goes to its category
recordResult(res, task, o) ==
  IF o.action = "recreated" THEN
    [res EXCEPT !.recreated = Append(@, [taskId |-> task.id, newMondayItemId |-> o.mondayItemId])]
  ELSE IF o.action = "created" THEN
    [res EXCEPT !.created = Append(@, [taskId |-> task.id, mondayItemId |-> o.mondayItemId])]
  ELSE IF o.action = "updated" THEN
    [res EXCEPT !.updated = Append(@, [taskId |-> task.id, mondayItemId |-> o.mondayItemId])]
  ELSE IF o.action = "error" THEN
    [res EXCEPT !.errors = Append(@, [taskId |-> task.id, mondayItemId |-> 0, error |-> o.error])]
  ELSE res

\* the for loop goes on to the next task whatever the result was
AbortOnError(i, n, action) == IF action = "error" THEN n + 1 ELSE i + 1

NextTask(i, n, action) == i + 1

\* handleOrphanedItems, lines 633-650: the entries of items whose task id is
\* no id of a local task, in the order of items
orphanedItems(s, localTasks) ==
  LET localTaskIds == {localTasks[i].id.n : i \in DOMAIN localTasks}
      Orphan(e) == Truthy(e.taskmasterTaskId) /\ e.taskmasterTaskId.n \notin localTaskIds
      sel == SelectSeq(s.items, Orphan)
  IN [i \in 1..Len(sel) |->
        [mondayItemId |-> sel[i].id, taskId |-> sel[i].taskmasterTaskId]]

\* handleOrphanedItems, lines 662-692: delete each orphan remotely and, when
\* the delete succeeded, remove it from the sync state
RECURSIVE deleteOrphans(_, _, _, _)
deleteOrphans(orph, i, delFail, acc) ==
  IF i > Len(orph) THEN acc
  ELSE
    LET r == orph[i].mondayItemId
        deleted == ItemOnBoard(acc.board, r) /\ r \notin delFail
        rm == removeMondayItem(acc.file, r, acc.now)
    IN deleteOrphans(orph, i + 1, delFail,
         IF deleted
         THEN [acc EXCEPT
                 !.board = [@ EXCEPT ![r] = NoItem],
                 !.file = rm.file,
                 !.results = [@ EXCEPT !.deleted = Append(@, orph[i])],
                 !.calls = Append(@, Call("delete", r, "", TRUE)),
                 !.storeOps = IF rm.outcome = "removed"
                              THEN Append(@, StoreOp("remove", r)) ELSE @]
         ELSE [acc EXCEPT
                 !.results = [@ EXCEPT !.errors = Append(@,
                     [taskId |-> orph[i].taskId, mondayItemId |-> r,
                      error |-> "Failed to delete orphaned item"])],
                 !.calls = Append(@, Call("delete", r, "", FALSE))])

handleOrphanedItems(localTasks, dry, delFail, acc) ==
  LET orph == orphanedItems(StateOf(acc.file), localTasks) IN
  IF dry THEN [acc EXCEPT !.results = [@ EXCEPT !.deleted = orph]]
  ELSE deleteOrphans(orph, 1, delFail, acc)

\* -------------------------------------------------------------- pull sync
\* String.prototype.toLowerCase on the texts the board can hold
toLowerCase(s) ==
  CASE s = "Done" -> "done"
    [] s = "Pending" -> "pending"
    [] OTHER -> s

\* reverseMapping: lower-cased label -> key, for the truthy labels
reverseMapping(mapping) ==
  LET keys == {k \in DOMAIN mapping : TruthyText(mapping[k])}
  IN [l \in {toLowerCase(mapping[k]) : k \in keys} |->
        CHOOSE k \in keys : toLowerCase(mapping[k]) = l]

Unlabel(rev, text) ==
  LET t == toLowerCase(text) IN IF t \in DOMAIN rev THEN rev[t] ELSE t

ColumnText(text) == IF TruthyText(text) THEN text ELSE Undef

\* mapItemToTask: the id is the text of the Task ID column, a string
mapItemToTask(r, item) ==
  [ id |-> IF item.taskId # 0 THEN Str(item.taskId) ELSE NoId,
    title |-> item.name,
    status |-> IF TruthyText(item.status)
               THEN Unlabel(reverseMapping(StatusMappings), item.status) ELSE Undef,
    priority |-> IF TruthyText(item.priority)
                 THEN Unlabel(reverseMapping(PriorityMappings), item.priority)
                 ELSE Undef,
    dependencies |-> [i \in 1..Len(item.dependencies) |-> Str(item.dependencies[i])],
    description |-> ColumnText(item.description),
    details |-> ColumnText(item.details),
    testStrategy |-> ColumnText(item.testStrategy),
    monday_item_id |-> r,
    subtasks |-> <<>> ]

SortedSeq(S) ==
  CHOOSE q \in [1..Cardinality(S) -> S] :
    \A i, j \in 1..Cardinality(S) : i < j => q[i] < q[j]

\* fetchMondayItems: the groups of the board that are configured, in board
\* order; the items of each group
PullGroups ==
  LET Configured(g) == SeqHas(ConfigGroupIds, "all") \/ SeqHas(ConfigGroupIds, g)
  IN SelectSeq(BoardGroups, Configured)

RECURSIVE fetchFrom(_, _, _)
fetchFrom(bd, groups, i) ==
  IF i > Len(groups) THEN <<>>
  ELSE SortedSeq({r \in DOMAIN bd : bd[r].exists /\ bd[r].group = groups[i]})
         \o fetchFrom(bd, groups, i + 1)

fetchMondayItems(bd) == fetchFrom(bd, PullGroups, 1)

\* taskMasterIO.readTasks returns the array of tasks, with or without the
\* {tasks: [...]} envelope in the file
readTasks(file) == [isArray |-> TRUE, elems |-> file]
\* container.tasks: undefined on an array
HasTasksProp(c) == ~c.isArray
TasksProp(c) == IF HasTasksProp(c) THEN c.elems ELSE <<>>

DepSet(t) == {t.dependencies[i] : i \in DOMAIN t.dependencies}

tasksAreDifferent(task1, task2) ==
  \/ task1.title # task2.title
  \/ task1.status # task2.status
  \/ task1.description # task2.description
  \/ task1.details # task2.details
  \/ task1.priority # task2.priority
  \/ DepSet(task1) # DepSet(task2)

\* Map.get after a loop of Map.set: the last task of the array wins
LastIndex(ts, I) == IF I = {} THEN 0 ELSE CHOOSE i \in I : \A j \in I : j <= i
TaskMapGet(ts, id) ==
  LastIndex(ts, {i \in DOMAIN ts : Truthy(ts[i].id) /\ ts[i].id.n = id.n})
MondayItemMapGet(ts, r) ==
  LastIndex(ts, {i \in DOMAIN ts : ts[i].monday_item_id = r})

\* the branch compareItemsWithTasks takes for one item
classify(r, item, ts, s, o) ==
  LET mt == mapItemToTask(r, item)
      li == TaskMapGet(ts, mt.id)
      mi == MondayItemMapGet(ts, r)
      last == getLastSyncedTimestamp(s, r)
  IN IF ~Truthy(mt.id) THEN "skip"
     ELSE IF o.specificTaskId # 0 /\ mt.id.n # o.specificTaskId THEN "skip"
     ELSE IF li = 0 /\ o.recreateMissingTasks THEN "recreated"
     ELSE IF mi # 0 /\ ts[mi].id # mt.id /\ o.recreateMissingTasks THEN "identity"
     ELSE IF li = 0 THEN "new"
     ELSE IF tasksAreDifferent(ts[li], mt)
          THEN IF o.forceOverwrite \/ (~o.skipConflicts /\ o.specificTaskId = 0)
               THEN "updated"
               ELSE IF last # 0 /\ item.updated_at > last
                    THEN IF o.skipConflicts THEN "unchanged" ELSE "conflict"
                    ELSE "updated"
          ELSE "unchanged"

EmptyPullResults ==
  [newItems |-> <<>>, updatedItems |-> <<>>, conflictItems |-> <<>>,
   unchangedItems |-> <<>>, recreatedItems |-> <<>>, orphanedTasks |-> <<>>,
   outcome |-> "ok"]

compareItemsWithTasks(ids, bd, localTasks, s, o) ==
  LET ts == localTasks.elems
      Kind(r) == classify(r, bd[r], ts, s, o)
      Of(kinds) ==
        LET Is(r) == Kind(r) \in kinds
            sel == SelectSeq(ids, Is)
        IN [i \in 1..Len(sel) |-> mapItemToTask(sel[i], bd[sel[i]])]
  IN [EmptyPullResults EXCEPT
        !.newItems = Of({"recreated", "new"}),
        !.recreatedItems = Of({"recreated"}),
        !.updatedItems = Of({"updated"}),
        !.unchangedItems = Of({"unchanged"}),
        !.conflictItems = Of({"identity", "conflict"})]

\* findOrphanedLocalTasks: the tasks whose monday_item_id was not fetched,
\* then the sync-state entries whose item was not fetched
findOrphanedLocalTasks(localTasks, ids, s) ==
  LET Gone(r) == ~SeqHas(ids, r)
      Lost(t) == t.monday_item_id # 0 /\ Gone(t.monday_item_id)
      first == SelectSeq(localTasks.elems, Lost)
      Extra(e) == Gone(e.id) /\ \A i \in DOMAIN first : first[i].monday_item_id # e.id
      second == SelectSeq(s.items, Extra)
  IN [i \in 1..Len(first) |->
        [id |-> first[i].id, monday_item_id |-> first[i].monday_item_id]]
     \o [i \in 1..Len(second) |->
           [id |-> second[i].taskmasterTaskId, monday_item_id |-> second[i].id]]

\* the apply phase runs unless the run is a dry run
AppliesAlways(o) == TRUE
Applies(o) == ~o.dryRun

\* updateSyncedTimestamp(task.monday_item_id, String(task.id)) for each task
RECURSIVE upsertAll(_, _, _, _)
upsertAll(acc, ts, i, now) ==
  IF i > Len(ts) THEN acc
  ELSE upsertAll(
         IF ts[i].monday_item_id # 0
         THEN [file |-> updateSyncedTimestamp(acc.file, ts[i].monday_item_id,
                                              ToStr(ts[i].id), now),
               storeOps |-> Append(acc.storeOps, StoreOp("upsert", ts[i].monday_item_id))]
         ELSE acc,
         ts, i + 1, now)

\* the loop over updatedItems: overwrite in place keeping the subtasks
RECURSIVE overwriteAll(_, _, _)
overwriteAll(tw, ups, i) ==
  IF i > Len(ups) THEN tw
  ELSE LET I == {j \in DOMAIN tw : tw[j].id.n = ups[i].id.n}
           j == IF I = {} THEN 0 ELSE CHOOSE k \in I : \A m \in I : k <= m
       IN overwriteAll(
            IF j # 0 THEN [tw EXCEPT ![j] = [ups[i] EXCEPT !.subtasks = tw[j].subtasks]]
            ELSE Append(tw, ups[i]),
            ups, i + 1)

\* handleOrphanedTasks: throws unless readTasks gave an object with a tasks
\* array
handleOrphanedTasksThrows(container) == ~HasTasksProp(container)

\* the apply phase of pullSync
applyPull(cmp, orph, localTasks, file, o, now) ==
  LET tw0 == TasksProp(localTasks) \o cmp.newItems
      st1 == upsertAll([file |-> file, storeOps |-> <<>>], cmp.newItems, 1, now)
      tw1 == overwriteAll(tw0, cmp.updatedItems, 1)
      st2 == upsertAll(st1, cmp.updatedItems, 1, now)
      threw == /\ o.removeOrphaned /\ Len(orph) > 0
               /\ handleOrphanedTasksThrows(readTasks(localTasks.elems))
  IN [file |-> st2.file, storeOps |-> st2.storeOps,
      tasksFile |-> IF threw THEN localTasks.elems ELSE tw1,
      writes |-> IF threw THEN 0 ELSE 1,
      outcome |-> IF threw THEN "threw" ELSE "ok"]

\* ---------------------------------------------------------------- the runs
\* taskMasterIO.readTasks by the condition of the file: a parse error is
\* rethrown, a missing file (ENOENT) gives the empty array
readTasksThrows(cond) == cond = "malformed"
readTasksArray(cond, file) == IF cond = "absent" THEN <<>> ELSE file

\* a process that runs pushSync next to another one: where it is in the loop,
\* the ids syncTask looked up, its state manager's cache, its results
IdlePusher ==
  [pc |-> "lookup", idx |-> 1, ids |-> <<>>, cached |-> FALSE,
   cache |-> getEmptySyncState, results |-> EmptyPushResults]
NoOpts ==
  [kind |-> "none", instDryRun |-> FALSE, runDryRun |-> "unset",
   deleteOrphaned |-> FALSE]
PushOpts(inst, run, del) ==
  [kind |-> "push", instDryRun |-> inst, runDryRun |-> run, deleteOrphaned |-> del]
NoPrev == [valid |-> FALSE, opts |-> NoOpts, results |-> EmptyPushResults]
Snapshot == [syncFile |-> syncFile, board |-> board, tasksFile |-> tasksFile]
Quiet == pc \in {"idle", "pushDone", "pullDone"}

\* the world after an earlier sync of task 1 with item 1: by a push (numeric
\* id, no back-reference) or by a pull (string id, back-reference)
SyncedTask(pulled) ==
  Task(IF pulled THEN Str(1) ELSE Num(1), "A", IF pulled THEN 1 ELSE 0)

InitWorld ==
  \/ /\ tasksFile \in { <<Task(Num(1), "A", 0), Task(Num(2), "B", 0)>>,
                        <<Task(Num(1), "A", 0), Task(NoId, "B", 0)>>,
                        <<Task(Num(2), "B", 1), Task(Num(1), "A", 0)>> }
     /\ syncFile = NoFile
     /\ board = [r \in RemoteIds |-> NoItem]
     /\ nextItemId = 1
     /\ clock = 1
  \/ \E pulled \in BOOLEAN :
     /\ tasksFile = <<SyncedTask(pulled), Task(Num(2), "B", 0)>>
     /\ syncFile = updateSyncedTimestamp(NoFile, 1, SyncedTask(pulled).id, 1)
     /\ board = [r \in RemoteIds |->
                   IF r = 1
                   THEN NewItem("g2", "A", mapTaskToColumnValues(SyncedTask(pulled)), 1)
                   ELSE NoItem]
     /\ nextItemId = 2
     /\ clock = 1

InitRun ==
  /\ pc = "idle"
  /\ opts = NoOpts
  /\ tasks = <<>>
  /\ idx = 0
  /\ results = EmptyPushResults
  /\ calls = <<>>
  /\ storeOps = <<>>
  /\ taskWrites = 0
  /\ start = Snapshot
  /\ prev = NoPrev

ResetRun ==
  /\ pc' = "idle"
  /\ opts' = NoOpts
  /\ tasks' = <<>>
  /\ idx' = 0
  /\ results' = EmptyPushResults
  /\ calls' = <<>>
  /\ storeOps' = <<>>
  /\ taskWrites' = 0
  /\ start' = [syncFile |-> syncFile', board |-> board', tasksFile |-> tasksFile']
  /\ prev' = NoPrev

\* a user deletes an item on the board
EnvDeleteItem ==
  /\ UNCHANGED storeVars
  /\ Quiet /\ clock < MaxClock
  /\ \E r \in RemoteIds :
       /\ board[r].exists
       /\ board' = [board EXCEPT ![r] = NoItem]
  /\ clock' = clock + 1
  /\ UNCHANGED <<tasksFile, syncFile, nextItemId>>
  /\ ResetRun

\* the local tool removes a task from tasks.json
EnvRemoveTask ==
  /\ UNCHANGED storeVars
  /\ Quiet /\ clock < MaxClock
  /\ \E i \in DOMAIN tasksFile : tasksFile' = RemoveAt(tasksFile, i)
  /\ clock' = clock + 1
  /\ UNCHANGED <<syncFile, board, nextItemId>>
  /\ ResetRun

\* the local tool changes the title of a task
EnvRetitleTask ==
  /\ UNCHANGED storeVars
  /\ Quiet /\ clock < MaxClock
  /\ \E i \in DOMAIN tasksFile :
       tasksFile' = [tasksFile EXCEPT ![i].title = IF @ = "A" THEN "B" ELSE "A"]
  /\ clock' = clock + 1
  /\ UNCHANGED <<syncFile, board, nextItemId>>
  /\ ResetRun

\* pushSync up to the loop: the options, readTasks, getValidGroupIds (whose
\* failure aborts the run)
PushStart ==
  /\ UNCHANGED storeVars
  /\ Quiet /\ clock < MaxClock
  /\ clock' = clock + 1
  /\ \E inst \in BOOLEAN, run \in {"unset", "on", "off"}, del \in BOOLEAN,
        groupsFail \in BOOLEAN :
       IF \/ readTasksThrows(tasksCond)
          \/ groupsFail
          \/ Len(getValidGroupIds(ConfigGroupIds, BoardGroups)) = 0
       THEN /\ UNCHANGED <<tasksFile, syncFile, board, nextItemId>>
            /\ ResetRun
       ELSE /\ pc' = "pushTasks"
            /\ opts' = PushOpts(inst, run, del)
            /\ tasks' = readTasksArray(tasksCond, tasksFile)
            /\ idx' = 1
            /\ results' = EmptyPushResults
            /\ calls' = <<>>
            /\ storeOps' = <<>>
            /\ taskWrites' = 0
            /\ start' = Snapshot
            /\ prev' = IF pc = "pushDone"
                       THEN [valid |-> TRUE, opts |-> opts, results |-> results]
                       ELSE NoPrev
            /\ UNCHANGED <<tasksFile, syncFile, board, nextItemId>>

\* one iteration of pushSync's loop over the tasks
PushTask ==
  /\ UNCHANGED storeVars
  /\ pc = "pushTasks"
  /\ idx <= Len(tasks)
  /\ IF ~Truthy(tasks[idx].id)
     THEN /\ idx' = idx + 1
          /\ UNCHANGED <<syncFile, board, nextItemId, tasks, results, calls, storeOps>>
     ELSE \E checkFails \in BOOLEAN, fail \in FailPoints,
             file0 \in AfterRead(syncFile, clock) :
            LET chk == staleItemCheck(tasks[idx], file0, board, checkFails, clock)
                o == syncTask(chk.task, getValidGroupIds(ConfigGroupIds, BoardGroups),
                              fail, chk.file, board, nextItemId, clock, opts.instDryRun)
            IN /\ tasks' = [tasks EXCEPT ![idx] = chk.task]
               /\ syncFile' = o.file
               /\ board' = o.board
               /\ nextItemId' = o.nextItemId
               /\ results' = recordResult(results, chk.task, o)
               /\ calls' = calls \o o.calls
               /\ storeOps' = storeOps \o chk.storeOps \o o.storeOps
               /\ idx' = NextTask(idx, Len(tasks), o.action)
  /\ UNCHANGED <<tasksFile, clock, pc, opts, taskWrites, start, prev>>

\* the end of pushSync: the orphan scan, then the results are returned
PushOrphans ==
  /\ UNCHANGED storeVars
  /\ pc = "pushTasks"
  /\ idx > Len(tasks)
  /\ IF opts.deleteOrphaned
     THEN \E delFail \in SUBSET RemoteIds, file0 \in AfterRead(syncFile, clock) :
            LET acc == handleOrphanedItems(tasks, dryRunOption(opts), delFail,
                         [file |-> file0, board |-> board, results |-> results,
                          calls |-> calls, storeOps |-> storeOps, now |-> clock])
            IN /\ syncFile' = acc.file
               /\ board' = acc.board
               /\ results' = acc.results
               /\ calls' = acc.calls
               /\ storeOps' = acc.storeOps
     ELSE UNCHANGED <<syncFile, board, results, calls, storeOps>>
  /\ pc' = "pushDone"
  /\ UNCHANGED <<tasksFile, nextItemId, clock, opts, tasks, idx, taskWrites, start, prev>>

PullOpts(dry, force, skip, specific, rem, rec) ==
  [kind |-> "pull", dryRun |-> dry, forceOverwrite |-> force,
   skipConflicts |-> skip, specificTaskId |-> specific, removeOrphaned |-> rem,
   recreateMissingTasks |-> rec]

\* a user creates an item on the board, with or without a Task ID
EnvAddItem ==
  /\ UNCHANGED storeVars
  /\ Quiet /\ clock < MaxClock
  /\ nextItemId <= MaxRemote
  /\ \E t \in {0, 3}, g \in {"g1", "g2"} :
       board' = [board EXCEPT ![nextItemId] =
                   [NoItem EXCEPT !.exists = TRUE, !.name = "C", !.group = g,
                                  !.taskId = t, !.status = "Done",
                                  !.updated_at = clock + 1]]
  /\ nextItemId' = nextItemId + 1
  /\ clock' = clock + 1
  /\ UNCHANGED <<tasksFile, syncFile>>
  /\ ResetRun

\* a user renames an item or sets its status on the board
EnvEditItem ==
  /\ UNCHANGED storeVars
  /\ Quiet /\ clock < MaxClock
  /\ \E r \in RemoteIds :
       /\ board[r].exists
       /\ \/ board' = [board EXCEPT ![r].name = IF @ = "A" THEN "B" ELSE "A",
                                    ![r].updated_at = clock + 1]
          \/ board' = [board EXCEPT ![r].status = "Done",
                                    ![r].updated_at = clock + 1]
  /\ clock' = clock + 1
  /\ UNCHANGED <<tasksFile, syncFile, nextItemId>>
  /\ ResetRun

\* pullSync: fetch, read, compare, and, unless it is a dry run, apply
PullSync ==
  /\ UNCHANGED storeVars
  /\ Quiet /\ clock < MaxClock
  /\ clock' = clock + 1
  /\ \E dry, force, skip, rem, rec, fetchFail \in BOOLEAN, specific \in {0, 1},
        file0 \in AfterRead(syncFile, clock + 1) :
       LET o == PullOpts(dry, force, skip, specific, rem, rec)
           ids == fetchMondayItems(board)
           lt == readTasks(tasksFile)
           cmp == compareItemsWithTasks(ids, board, lt, StateOf(file0), o)
           orph == findOrphanedLocalTasks(lt, ids, StateOf(file0))
           ap == applyPull(cmp, orph, lt, file0, o, clock + 1)
       IN /\ opts' = o
          /\ IF fetchFail \/ Len(PullGroups) = 0
             THEN /\ results' = [EmptyPullResults EXCEPT !.outcome = "fetchFailed"]
                  /\ storeOps' = <<>>
                  /\ taskWrites' = 0
                  /\ UNCHANGED <<tasksFile, syncFile>>
             ELSE IF ~Applies(o)
             THEN /\ results' = [cmp EXCEPT !.orphanedTasks = orph]
                  /\ syncFile' = file0
                  /\ storeOps' = <<>>
                  /\ taskWrites' = 0
                  /\ UNCHANGED tasksFile
             ELSE /\ results' = [cmp EXCEPT !.orphanedTasks = orph,
                                            !.outcome = ap.outcome]
                  /\ syncFile' = ap.file
                  /\ storeOps' = ap.storeOps
                  /\ taskWrites' = ap.writes
                  /\ tasksFile' = ap.tasksFile
  /\ pc' = "pullDone"
  /\ tasks' = tasksFile
  /\ idx' = 0
  /\ calls' = <<>>
  /\ start' = Snapshot
  /\ prev' = NoPrev
  /\ UNCHANGED <<board, nextItemId>>

Init ==
  /\ InitWorld /\ InitRun
  /\ lockFile = NoLock
  /\ proc = [p \in Procs |-> IdleProc]
  /\ pusher = [p \in Procs |-> IdlePusher]
  /\ InitClient
  /\ tasksCond = "ok"

NextPush ==
  \/ EnvDeleteItem
  \/ EnvRemoveTask
  \/ EnvRetitleTask
  \/ PushStart
  \/ PushTask
  \/ PushOrphans

SpecPush == Init /\ [][NextPush]_vars

NextPull ==
  \/ EnvDeleteItem
  \/ EnvRemoveTask
  \/ EnvRetitleTask
  \/ EnvAddItem
  \/ EnvEditItem
  \/ PullSync

SpecPull == Init /\ [][NextPull]_vars

\* ------------------------------------------- processes on the sync state
\* Two processes, each with its own state manager (its own cache and
\* activeLocks), upsert their own pair through updateSyncedTimestamp. Time is
\* counted in ticks of TickMs milliseconds.
MaxOps == 2
MaxStoreClock == 4
TickMs == 3000
DEFAULT_LOCK_TIMEOUT_MS == 5000
CacheTtlMs == 5000

PairOf(p) == [r |-> p, l |-> Num(p)]
LockId(p) == <<p, proc[p].lockSeq>>
Elapsed(since) == (clock - since) * TickMs
CacheValid(p) == proc[p].cacheTs # 0 /\ Elapsed(proc[p].cacheTs) < CacheTtlMs
StoreFrame ==
  UNCHANGED <<tasksFile, board, nextItemId, runVars, pusher, tasksCond, clientVars>>

InitStore ==
  /\ tasksFile = <<Task(Num(1), "A", 0), Task(Num(2), "B", 0)>>
  /\ syncFile \in {Persisted(getEmptySyncState, 1),
                   updateSyncedTimestamp(NoFile, 3, Num(3), 1)}
  /\ board = [r \in RemoteIds |-> NoItem]
  /\ nextItemId = 1
  /\ clock = 1
  /\ InitRun
  /\ lockFile = NoLock
  /\ proc = [p \in Procs |-> IdleProc]
  /\ pusher = [p \in Procs |-> IdlePusher]
  /\ InitClient
  /\ tasksCond = "ok"

StoreTick ==
  /\ clock < MaxStoreClock
  /\ clock' = clock + 1
  /\ UNCHANGED <<syncFile, lockFile, proc>>
  /\ StoreFrame

\* updateSyncedTimestamp starts with readSyncState: the cache, or acquireLock
BeginUpsert(p) ==
  /\ proc[p].pc = "idle" /\ proc[p].ops < MaxOps
  /\ proc' = [proc EXCEPT ![p] =
       IF CacheValid(p)
       THEN [@ EXCEPT !.pc = "modify", !.mem = proc[p].cache, !.ops = @ + 1]
       ELSE [@ EXCEPT !.pc = "acquire", !.phase = "r", !.startTime = clock,
                      !.lockSeq = @ + 1, !.ops = @ + 1]]
  /\ UNCHANGED <<syncFile, clock, lockFile>>
  /\ StoreFrame

\* one attempt of acquireLock: the exclusive create, or, when the lock file
\* exists, the timeout test
TryLock(p) ==
  /\ proc[p].pc = "acquire"
  /\ IF ~lockFile.held
     THEN /\ lockFile' = [held |-> TRUE, id |-> LockId(p), mtime |-> clock]
          /\ proc' = [proc EXCEPT ![p].pc = "locked"]
     ELSE /\ UNCHANGED lockFile
          /\ proc' = [proc EXCEPT ![p] =
               IF Elapsed(@.startTime) > DEFAULT_LOCK_TIMEOUT_MS
               THEN [@ EXCEPT !.pc = "idle", !.thrown = @ + 1]
               ELSE [@ EXCEPT !.pc = "stat"]]
  /\ UNCHANGED <<syncFile, clock>>
  /\ StoreFrame

\* fs.stat of the lock file: gone (retry), stale (unlink next) or fresh (wait
\* and retry)
StatLock(p) ==
  /\ proc[p].pc = "stat"
  /\ proc' = [proc EXCEPT ![p].pc =
       IF lockFile.held /\ Elapsed(lockFile.mtime) > DEFAULT_LOCK_TIMEOUT_MS
       THEN "unlink" ELSE "acquire"]
  /\ UNCHANGED <<syncFile, clock, lockFile>>
  /\ StoreFrame

\* fs.unlink of the lock file found stale, whatever the file holds by now
UnlinkStale(p) ==
  /\ proc[p].pc = "unlink"
  /\ lockFile' = NoLock
  /\ proc' = [proc EXCEPT ![p].pc = "acquire"]
  /\ UNCHANGED <<syncFile, clock>>
  /\ StoreFrame

\* readSyncState under its lock: read and parse the file
ReadFile(p) ==
  /\ proc[p].pc = "locked" /\ proc[p].phase = "r"
  /\ proc' = [proc EXCEPT ![p].mem = StateOf(syncFile), ![p].pc = "release"]
  /\ UNCHANGED <<syncFile, clock, lockFile>>
  /\ StoreFrame

\* what follows releaseLock: readSyncState fills the cache and returns to
\* updateSyncedTimestamp; writeSyncState returns
Released(q) ==
  IF q.phase = "r"
  THEN [q EXCEPT !.pc = "modify", !.cache = q.mem, !.cacheTs = clock]
  ELSE [q EXCEPT !.pc = "idle", !.returned = @ + 1]

\* releaseLock: read the lock file and compare its content with the lock id
ReleaseLock(p) ==
  /\ proc[p].pc = "release"
  /\ proc' = [proc EXCEPT ![p] =
       IF lockFile.held /\ lockFile.id = LockId(p)
       THEN [@ EXCEPT !.pc = "unlinkOwn"]
       ELSE Released(@)]
  /\ UNCHANGED <<syncFile, clock, lockFile>>
  /\ StoreFrame

\* releaseLock: unlink the lock file
UnlinkOwn(p) ==
  /\ proc[p].pc = "unlinkOwn"
  /\ lockFile' = NoLock
  /\ proc' = [proc EXCEPT ![p] = Released(@)]
  /\ UNCHANGED <<syncFile, clock>>
  /\ StoreFrame

\* updateSyncedTimestamp changes the state it read (the cached object), then
\* writeSyncState stamps it and asks for the lock
Modify(p) ==
  /\ proc[p].pc = "modify"
  /\ LET st == [Upsert(proc[p].mem, PairOf(p).r, PairOf(p).l, clock)
                  EXCEPT !.lastSync = clock]
     IN proc' = [proc EXCEPT ![p] =
          [@ EXCEPT !.mem = st, !.cache = st, !.pc = "acquire", !.phase = "w",
                    !.startTime = clock, !.lockSeq = @ + 1]]
  /\ UNCHANGED <<syncFile, clock, lockFile>>
  /\ StoreFrame

\* writeSyncState under its lock: the temporary file is moved over the file
WriteFile(p) ==
  /\ proc[p].pc = "locked" /\ proc[p].phase = "w"
  /\ syncFile' = [exists |-> TRUE, state |-> proc[p].mem]
  /\ proc' = [proc EXCEPT ![p].cache = proc[p].mem, ![p].cacheTs = clock,
                          ![p].pc = "release"]
  /\ UNCHANGED <<clock, lockFile>>
  /\ StoreFrame

NextStore ==
  \/ StoreTick
  \/ \E p \in Procs : BeginUpsert(p)
  \/ \E p \in Procs : TryLock(p)
  \/ \E p \in Procs : StatLock(p)
  \/ \E p \in Procs : UnlinkStale(p)
  \/ \E p \in Procs : ReadFile(p)
  \/ \E p \in Procs : ReleaseLock(p)
  \/ \E p \in Procs : UnlinkOwn(p)
  \/ \E p \in Procs : Modify(p)
  \/ \E p \in Procs : WriteFile(p)

SpecStore == InitStore /\ [][NextStore]_vars

\* ------------------------------------------- a push that meets a held lock
LockTimeoutError == "Failed to acquire lock"
LockedRunClock == MaxClock

\* syncTask when acquireLock times out: in readSyncState under
\* getMondayItemIdsForTask ("read"), or in updateSyncedTimestamp after the
\* item was created or updated ("write"); syncTask's catch turns the
\* exception into an 'error' result
syncTaskLockTimeout(task, groups, at, file, bd, nid, now, dry) ==
  LET o == syncTask(task, groups, "none", file, bd, nid, now, dry) IN
  IF at = "read" \/ o.storeOps = <<>>
  THEN Out("error", 0, LockTimeoutError, file, bd, nid, <<>>, <<>>)
  ELSE Out("error", 0, LockTimeoutError, file, o.board, o.nextItemId, o.calls, <<>>)

\* one iteration of pushSync's loop in which another process keeps the lock
\* for longer than the timeout; the other process is there during the run
\* that starts at LockedRunClock
PushTaskLockTimeout ==
  /\ UNCHANGED storeVars
  /\ pc = "pushTasks" /\ clock = LockedRunClock
  /\ idx <= Len(tasks)
  /\ Truthy(tasks[idx].id)
  /\ \E at \in {"read", "write"} :
       LET o == syncTaskLockTimeout(tasks[idx],
                  getValidGroupIds(ConfigGroupIds, BoardGroups), at, syncFile,
                  board, nextItemId, clock, opts.instDryRun)
       IN /\ board' = o.board
          /\ nextItemId' = o.nextItemId
          /\ results' = recordResult(results, tasks[idx], o)
          /\ calls' = calls \o o.calls
          /\ idx' = NextTask(idx, Len(tasks), o.action)
  /\ UNCHANGED <<tasksFile, syncFile, clock, pc, opts, tasks, storeOps,
                 taskWrites, start, prev>>

NextPushLock ==
  \/ PushStart
  \/ PushTask
  \/ PushTaskLockTimeout
  \/ PushOrphans

SpecPushLock == Init /\ [][NextPushLock]_vars

\* --------------------------------------- a push and an unreadable tasks.json
\* the world after an earlier push of task 1 to item 1, with tasks.json as it
\* was, missing or malformed since
InitRead ==
  /\ tasksCond \in {"ok", "absent", "malformed"}
  /\ tasksFile = IF tasksCond = "absent" THEN <<>>
                 ELSE <<SyncedTask(FALSE), Task(Num(2), "B", 0)>>
  /\ syncFile = updateSyncedTimestamp(NoFile, 1, SyncedTask(FALSE).id, 1)
  /\ board = [r \in RemoteIds |->
                IF r = 1
                THEN NewItem("g2", "A", mapTaskToColumnValues(SyncedTask(FALSE)), 1)
                ELSE NoItem]
  /\ nextItemId = 2
  /\ clock = 1
  /\ InitRun
  /\ lockFile = NoLock
  /\ proc = [p \in Procs |-> IdleProc]
  /\ pusher = [p \in Procs |-> IdlePusher]
  /\ InitClient

NextRead ==
  \/ PushStart
  \/ PushTask
  \/ PushOrphans

SpecRead == InitRead /\ [][NextRead]_vars

\* ------------------------------------------------- two pushes side by side
\* Two processes run pushSync({deleteOrphaned: false}) over the same
\* tasks.json. syncTask first asks the sync state for the task's items, then
\* creates or updates the item and records the pair.
InitPair ==
  /\ tasksFile = <<Task(Num(1), "A", 0), Task(Num(2), "B", 0)>>
  /\ \/ /\ syncFile = Persisted(getEmptySyncState, 1)
        /\ board = [r \in RemoteIds |-> NoItem]
        /\ nextItemId = 1
     \/ /\ syncFile = updateSyncedTimestamp(NoFile, 1, Num(2), 1)
        /\ board = [r \in RemoteIds |->
                      IF r = 1
                      THEN NewItem("g2", "B", mapTaskToColumnValues(Task(Num(2), "B", 0)), 1)
                      ELSE NoItem]
        /\ nextItemId = 2
  /\ clock = 1
  /\ InitRun
  /\ lockFile = NoLock
  /\ proc = [p \in Procs |-> IdleProc]
  /\ pusher = [p \in Procs |-> IdlePusher]
  /\ InitClient
  /\ tasksCond = "ok"

\* readSyncState of process q: the file, or the process's cache while it is
\* younger than five seconds
ReadStates(q) ==
  {StateOf(syncFile)} \cup (IF pusher[q].cached THEN {pusher[q].cache} ELSE {})

PairFrame ==
  UNCHANGED <<tasksFile, clock, runVars, lockFile, proc, tasksCond, clientVars>>

\* syncTask, first half: getMondayItemIdsForTask
PairLookup(q) ==
  /\ pusher[q].pc = "lookup" /\ pusher[q].idx <= Len(tasksFile)
  /\ \E st \in ReadStates(q) :
       pusher' = [pusher EXCEPT ![q] =
         [@ EXCEPT !.pc = "act", !.cached = TRUE, !.cache = st,
                   !.ids = getMondayItemIdsForTask(st, tasksFile[pusher[q].idx].id)]]
  /\ UNCHANGED <<syncFile, board, nextItemId>>
  /\ PairFrame

\* syncTask, second half: updateMondayItem or createMondayItem, whose
\* updateSyncedTimestamp reads, changes and writes the sync state
PairAct(q) ==
  /\ pusher[q].pc = "act"
  /\ \E st \in ReadStates(q), fail \in {"none", "create"} :
       LET task == tasksFile[pusher[q].idx]
           groups == getValidGroupIds(ConfigGroupIds, BoardGroups)
           seen == [exists |-> TRUE, state |-> st]
           o == IF Len(pusher[q].ids) > 0
                THEN updateMondayItem(task, pusher[q].ids[1], fail, seen, board,
                                      nextItemId, clock, FALSE)
                ELSE createMondayItem(task, groups[1], fail, seen, board,
                                      nextItemId, clock, FALSE)
           wrote == o.storeOps # <<>>
       IN /\ board' = o.board
          /\ nextItemId' = o.nextItemId
          /\ syncFile' = IF wrote THEN o.file ELSE syncFile
          /\ pusher' = [pusher EXCEPT ![q] =
               [@ EXCEPT !.pc = IF pusher[q].idx = Len(tasksFile) THEN "done" ELSE "lookup",
                         !.idx = @ + 1,
                         !.cached = TRUE,
                         !.cache = IF wrote THEN StateOf(o.file) ELSE st,
                         !.results = recordResult(@, task, o)]]
  /\ PairFrame

NextPair ==
  \/ \E q \in Procs : PairLookup(q)
  \/ \E q \in Procs : PairAct(q)

SpecPair == InitPair /\ [][NextPair]_vars

\* ------------------------------------------------------- claims about push
InPush == opts.kind = "push" /\ pc \in {"pushTasks", "pushDone"}
\* a run in which neither the instance nor the call asked for a dry run
RealPush(o) == o.kind = "push" /\ ~o.instDryRun /\ ~dryRunOption(o)
SeqSet(s) == {s[i] : i \in DOMAIN s}
IdsIn(entries) == {entries[i].taskId.n : i \in DOMAIN entries}
CountFor(entries, n) == Cardinality({i \in DOMAIN entries : entries[i].taskId.n = n})
TaskErrors(res) == {i \in DOMAIN res.errors : res.errors[i].mondayItemId = 0}
TaskEntries(res) ==
  Len(res.created) + Len(res.updated) + Len(res.recreated)
    + Cardinality(TaskErrors(res))
StoreMentions(s, r) == \E p \in MappedPairs(s) : p[1] = r
\* the first configured group id that is a group of the board
FirstValidGroup ==
  LET ok == {i \in DOMAIN ConfigGroupIds : SeqHas(BoardGroups, ConfigGroupIds[i])}
  IN ConfigGroupIds[CHOOSE i \in ok : \A j \in ok : i <= j]
\* the tasks of the run whose mapped item was gone when the run started
MappedIds(j) == getMondayItemIdsForTask(StateOf(start.syncFile), tasks[j].id)
LostRemote ==
  {j \in DOMAIN tasks :
     /\ Truthy(tasks[j].id)
     /\ Len(MappedIds(j)) > 0
     /\ ~ItemOnBoard(start.board, MappedIds(j)[1])}

\* C2: in a push run with dryRun enabled no remote create, rename, column
\* update or delete is requested and the mapping store is not modified.
C2_DryRunPushMutatesNothing ==
  (InPush /\ dryRunOption(opts)) =>
     /\ calls = <<>>
     /\ storeOps = <<>>
     /\ board = start.board
     /\ MappedPairs(StateOf(syncFile)) = MappedPairs(StateOf(start.syncFile))
     /\ StateOf(syncFile).items = StateOf(start.syncFile).items

\* C4: a task whose processing raises an exception gets an errors entry with
\* its id, and the loop goes on with the next task: every task with an id is
\* classified exactly once, in input order.
C4_ErrorIsolation ==
  [][ (pc = "pushTasks" /\ idx <= Len(tasks) /\ Truthy(tasks[idx].id)) =>
        /\ pc' = "pushTasks"
        /\ idx' = idx + 1
        /\ TaskEntries(results') = TaskEntries(results) + 1
        /\ CountFor(results'.created \o results'.updated \o results'.recreated
                      \o results'.errors, tasks[idx].id.n)
             = CountFor(results.created \o results.updated \o results.recreated
                          \o results.errors, tasks[idx].id.n) + 1
        /\ ( (Len(calls') > Len(calls) /\ ~calls'[Len(calls')].ok) =>
               /\ Len(results'.errors) = Len(results.errors) + 1
               /\ results'.errors[Len(results'.errors)].taskId = tasks[idx].id )
    ]_vars

C4_Witness ==
  /\ pc = "pushDone" /\ Len(tasks) = 2
  /\ Len(results.errors) = 1 /\ results.errors[1].taskId = tasks[1].id
  /\ \E k \in DOMAIN calls : ~calls[k].ok
  /\ tasks[2].id.n \in IdsIn(results.created \o results.updated)

\* C5: a non-dry-run push that processes a record without mapping, and whose
\* remote create succeeds, creates exactly one item, in the first valid group,
\* lists the record under created with the new id R, and the mapping store
\* then maps the local id to R.
C5_CreateUnmapped ==
  [][ ( /\ pc = "pushTasks" /\ idx <= Len(tasks) /\ Truthy(tasks[idx].id)
        /\ RealPush(opts)
        /\ getMondayItemIdsForTask(StateOf(syncFile), tasks[idx].id) = <<>>
        /\ ~(Len(calls') > Len(calls) /\ ~calls'[Len(calls')].ok) ) =>
        LET R == nextItemId IN
        /\ calls' = Append(calls, Call("create", R, FirstValidGroup, TRUE))
        /\ ~board[R].exists /\ board'[R].exists
        /\ board'[R].group = FirstValidGroup
        /\ board'[R].name = tasks[idx].title
        /\ \A r \in RemoteIds \ {R} : board'[r] = board[r]
        /\ results'.created =
             Append(results.created, [taskId |-> tasks[idx].id, mondayItemId |-> R])
        /\ results'.updated = results.updated /\ results'.errors = results.errors
        /\ getMondayItemIdsForTask(StateOf(syncFile'), tasks[idx].id) = <<R>>
        /\ StateOf(syncFile').mondayToTaskMaster[R] = tasks[idx].id
        /\ \E m \in SeqSet(StateOf(syncFile').taskMappings) :
             m.mondayItemId = R /\ m.taskmasterTaskId = ToStr(tasks[idx].id)
    ]_vars

C5_Witness ==
  /\ InPush /\ RealPush(opts)
  /\ Len(results.created) = 1
  /\ \E k \in DOMAIN calls :
       calls[k] = Call("create", results.created[1].mondayItemId, FirstValidGroup, TRUE)
  /\ <<results.created[1].mondayItemId, results.created[1].taskId.n>>
       \in MappedPairs(StateOf(syncFile))

\* two runs in a row, both real, the second one ended
SecondRun == pc = "pushDone" /\ prev.valid /\ RealPush(opts) /\ RealPush(prev.opts)

C7_RecreatedEmitted ==
  (pc = "pushDone" /\ RealPush(opts)) =>
     \A j \in LostRemote :
        /\ CountFor(results.recreated, tasks[j].id.n) = 1
        /\ CountFor(results.created, tasks[j].id.n) = 0
        /\ CountFor(results.errors, tasks[j].id.n) = 0

\* C8: after a non-dry-run push that found a mapped record's item missing,
\* the mapping store has no entry for the old item id and maps the local id to
\* the newly created item.
C8_StaleMappingReplaced ==
  (pc = "pushDone" /\ RealPush(opts)) =>
     \A j \in LostRemote :
        /\ ~StoreMentions(StateOf(syncFile), MappedIds(j)[1])
        /\ \E r \in RemoteIds :
             /\ r # MappedIds(j)[1]
             /\ board[r].exists
             /\ <<r, tasks[j].id.n>> \in MappedPairs(StateOf(syncFile))

\* C9: in a non-dry-run push with deleteOrphaned in which every remote delete
\* succeeds, the items deleted are exactly the mapped items whose local id is
\* not in the task list; each leaves the mapping store and is listed in deleted.
ExpectedOrphans ==
  LET tm == StateOf(start.syncFile).taskMappings
  IN {tm[i].mondayItemId : i \in {k \in DOMAIN tm :
         tm[k].taskmasterTaskId.n \notin {tasks[j].id.n : j \in DOMAIN tasks}}}
DeleteCalls == {calls[k].item : k \in {i \in DOMAIN calls : calls[i].op = "delete"}}
PullEnded == pc = "pullDone" /\ opts.kind = "pull" /\ results.outcome # "fetchFailed"
PulledIds(ts) == {ts[i].id.n : i \in DOMAIN ts}
OrphanRefs == {results.orphanedTasks[i].monday_item_id : i \in DOMAIN results.orphanedTasks}

\* C1: after a non-dry-run pull every local record that the pull neither
\* classified as Updated nor removed as an orphan is still in tasks.json with
\* the content it had before the pull.
C1_PullKeepsOtherRecords ==
  (PullEnded /\ ~opts.dryRun) =>
     \A i \in DOMAIN start.tasksFile :
        LET t == start.tasksFile[i] IN
        ( /\ ~(Truthy(t.id) /\ t.id.n \in PulledIds(results.updatedItems))
          /\ ~(opts.removeOrphaned /\ t.monday_item_id \in OrphanRefs) )
        => SeqHas(tasksFile, t)

\* C3: a dry-run pull writes tasks.json not at all and performs no upsert and
\* no removal in the mapping store, whatever it classified and whatever the
\* other options are.
C3_DryRunPullWritesNothing ==
  (pc = "pullDone" /\ opts.kind = "pull" /\ opts.dryRun) =>
     /\ taskWrites = 0
     /\ tasksFile = start.tasksFile
     /\ storeOps = <<>>
     /\ MappedPairs(StateOf(syncFile)) = MappedPairs(StateOf(start.syncFile))
     /\ StateOf(syncFile).items = StateOf(start.syncFile).items

C3_Witness ==
  /\ PullEnded /\ opts.dryRun /\ opts.removeOrphaned
  /\ Len(results.updatedItems) > 0
  /\ taskWrites = 0 /\ storeOps = <<>>

\* ------------------------------------------------- claims about the store
\* each process has made one upsert, and each upsert has returned
BothUpserted ==
  \A p \in Procs :
     proc[p].pc = "idle" /\ proc[p].ops = 1 /\ proc[p].returned = 1 /\ proc[p].thrown = 0

\* C10: when two processes upsert different pairs into the same file and both
\* calls return, the persisted state holds both pairs.
C10_NoLostUpdate ==
  BothUpserted =>
     \A p \in Procs :
        <<PairOf(p).r, PairOf(p).l.n>> \in MappedPairs(StateOf(syncFile))

\* a process holds the lock from the return of acquireLock to the return of
\* the matching releaseLock
Holds(p) == proc[p].pc \in {"locked", "release", "unlinkOwn"}

\* C11: at any time at most one process holds the lock of the sync state
\* file, also when a waiting process reclaims a lock it finds stale.
C11_MutualExclusion == Cardinality({p \in Procs : Holds(p)}) <= 1

\* ------------------------------------------ claims about concurrent pushes
PairDone == \A q \in Procs : pusher[q].pc = "done"
ItemsFor(n) == {r \in RemoteIds : board[r].exists /\ board[r].taskId = n}
UnmappedAtStart(n) ==
  getMondayItemIdsForTask(StateOf(start.syncFile), Num(n)) = <<>>

\* C12: when two pushes run side by side over the same tasks and the sync
\* state had no entry for a task id, at most one item is created for that id
\* and the final sync state maps the id to that item.
C12_OneItemPerTask ==
  PairDone =>
     \A n \in {tasksFile[i].id.n : i \in DOMAIN tasksFile} :
        UnmappedAtStart(n) =>
           /\ Cardinality(ItemsFor(n)) <= 1
           /\ \A r \in ItemsFor(n) : <<r, n>> \in MappedPairs(StateOf(syncFile))

\* ------------------------------------- claims about a push and a held lock
\* C13: a lock timeout during a push aborts the run: it is never recorded as
\* the error of one record while the run goes on to the next records.
C13_LockTimeoutAborts ==
  InPush =>
     \A i \in DOMAIN results.errors : results.errors[i].error # LockTimeoutError

\* ------------------------------------------------ one pull, case by case
\* the worlds a pull can meet some time after task 1 was pushed to item 1 at
\* time 1: item 1 renamed or not, before or after that sync; a second item
\* with or without a Task ID of its own; task 1 kept, retitled or removed; a
\* second task that refers to item 1 or to an item the board does not have
CaseBoard(name1, at1, id2) ==
  [r \in RemoteIds |->
     IF r = 1
     THEN [NewItem("g2", name1, mapTaskToColumnValues(SyncedTask(FALSE)), 1)
             EXCEPT !.updated_at = at1]
     ELSE IF r = 2 /\ id2 >= 0
     THEN [NoItem EXCEPT !.exists = TRUE, !.name = "C", !.group = "g1",
                         !.taskId = id2, !.status = "Done", !.updated_at = 2]
     ELSE NoItem]

CaseTasks(title1, mid2) ==
  (IF title1 = "" THEN <<>>
   ELSE <<[SyncedTask(FALSE) EXCEPT !.title = title1]>>)
  \o (IF mid2 < 0 THEN <<>> ELSE <<Task(Num(2), "B", mid2)>>)

InitCases ==
  /\ \E name1 \in {"A", "B"}, at1 \in {1, 2}, id2 \in {0 - 1, 0, 3} :
       board = CaseBoard(name1, at1, id2)
  /\ \E title1 \in {"", "A", "B"}, mid2 \in {0 - 1, 0, 1, 3} :
       tasksFile = CaseTasks(title1, mid2)
  /\ syncFile = updateSyncedTimestamp(NoFile, 1, SyncedTask(FALSE).id, 1)
  /\ nextItemId = 3
  /\ clock = 2
  /\ InitRun
  /\ lockFile = NoLock
  /\ proc = [p \in Procs |-> IdleProc]
  /\ pusher = [p \in Procs |-> IdlePusher]
  /\ InitClient
  /\ tasksCond = "ok"

NextCases == PullSync

SpecCases == InitCases /\ [][NextCases]_vars

\* ------------------------------------------------- a push and then a pull
\* one local task, over the values its fields can take, is pushed to an empty
\* board and pulled back; nobody edits either side
RoundTask(status, priority, deps, description) ==
  [Task(Num(1), "A", 0) EXCEPT !.status = status, !.priority = priority,
                               !.dependencies = deps, !.description = description]

InitRound ==
  /\ \E status \in {"pending", Undef}, priority \in {"medium", "high"},
        deps \in {<<>>, <<Num(2)>>}, description \in {"desc", ""} :
       tasksFile = <<RoundTask(status, priority, deps, description)>>
  /\ syncFile = NoFile
  /\ board = [r \in RemoteIds |-> NoItem]
  /\ nextItemId = 1
  /\ clock = 1
  /\ InitRun
  /\ lockFile = NoLock
  /\ proc = [p \in Procs |-> IdleProc]
  /\ pusher = [p \in Procs |-> IdlePusher]
  /\ InitClient
  /\ tasksCond = "ok"

NextRound ==
  \/ PushStart
  \/ PushTask
  \/ PushOrphans
  \/ PullSync

SpecRound == InitRound /\ [][NextRound]_vars

\* ------------------------------------------- a pull after one local edit
\* task 1 was pushed to item 1 at time 1; since then one field of the local
\* record was edited, or none, and the item was touched on the board or not
Fields ==
  {"none", "title", "status", "priority", "description", "details",
   "testStrategy", "dependencies"}
Edited(t, field) ==
  CASE field = "title" -> [t EXCEPT !.title = "B"]
    [] field = "status" -> [t EXCEPT !.status = "done"]
    [] field = "priority" -> [t EXCEPT !.priority = "high"]
    [] field = "description" -> [t EXCEPT !.description = "desc2"]
    [] field = "details" -> [t EXCEPT !.details = "det2"]
    [] field = "testStrategy" -> [t EXCEPT !.testStrategy = "ts2"]
    [] field = "dependencies" -> [t EXCEPT !.dependencies = <<Num(2)>>]
    [] OTHER -> t

InitDiff ==
  /\ \E field \in Fields : tasksFile = <<Edited(SyncedTask(FALSE), field)>>
  /\ \E at1 \in {1, 2} : board = CaseBoard("A", at1, 0 - 1)
  /\ syncFile = updateSyncedTimestamp(NoFile, 1, SyncedTask(FALSE).id, 1)
  /\ nextItemId = 2
  /\ clock = 2
  /\ InitRun
  /\ lockFile = NoLock
  /\ proc = [p \in Procs |-> IdleProc]
  /\ pusher = [p \in Procs |-> IdlePusher]
  /\ InitClient
  /\ tasksCond = "ok"

NextDiff == PullSync

SpecDiff == InitDiff /\ [][NextDiff]_vars

\* ------------------------------------------- a pull that meets a held lock
\* the comparison of item r gets as far as the call of getLastSyncedTimestamp
reachesLastSynced(r, item, ts, o) ==
  LET mt == mapItemToTask(r, item)
      li == TaskMapGet(ts, mt.id)
      mi == MondayItemMapGet(ts, r)
  IN /\ Truthy(mt.id)
     /\ ~(o.specificTaskId # 0 /\ mt.id.n # o.specificTaskId)
     /\ li # 0
     /\ ~(mi # 0 /\ ts[mi].id # mt.id /\ o.recreateMissingTasks)
     /\ tasksAreDifferent(ts[li], mt)
     /\ ~(o.forceOverwrite \/ (~o.skipConflicts /\ o.specificTaskId = 0))

\* compareItemsWithTasks while another process keeps the lock for longer than
\* the timeout: acquireLock throws under getLastSyncedTimestamp, the catch of
\* the loop body logs the error and the loop goes on with the next item
compareItemsWithTasksLockTimeout(ids, bd, localTasks, s, o) ==
  LET ts == localTasks.elems
      Kind(r) == IF reachesLastSynced(r, bd[r], ts, o) THEN "thrown"
                 ELSE classify(r, bd[r], ts, s, o)
      Of(kinds) ==
        LET Is(r) == Kind(r) \in kinds
            sel == SelectSeq(ids, Is)
        IN [i \in 1..Len(sel) |-> mapItemToTask(sel[i], bd[sel[i]])]
  IN [EmptyPullResults EXCEPT
        !.newItems = Of({"recreated", "new"}),
        !.recreatedItems = Of({"recreated"}),
        !.updatedItems = Of({"updated"}),
        !.unchangedItems = Of({"unchanged"}),
        !.conflictItems = Of({"identity", "conflict"})]

\* pullSync when the lock is held during the comparison and free again when
\* findOrphanedLocalTasks reads the sync state
PullSyncLockTimeout ==
  /\ UNCHANGED storeVars
  /\ Quiet /\ clock < MaxClock
  /\ Len(PullGroups) > 0
  /\ clock' = clock + 1
  /\ \E dry, force, skip, rem, rec \in BOOLEAN, specific \in {0, 1},
        file0 \in AfterRead(syncFile, clock + 1) :
       LET o == PullOpts(dry, force, skip, specific, rem, rec)
           ids == fetchMondayItems(board)
           lt == readTasks(tasksFile)
           cmp == compareItemsWithTasksLockTimeout(ids, board, lt, StateOf(file0), o)
           orph == findOrphanedLocalTasks(lt, ids, StateOf(file0))
           ap == applyPull(cmp, orph, lt, file0, o, clock + 1)
       IN /\ \E r \in RemoteIds :
               SeqHas(ids, r) /\ reachesLastSynced(r, board[r], lt.elems, o)
          /\ opts' = o
          /\ IF ~Applies(o)
             THEN /\ results' = [cmp EXCEPT !.orphanedTasks = orph]
                  /\ syncFile' = file0
                  /\ storeOps' = <<>>
                  /\ taskWrites' = 0
                  /\ UNCHANGED tasksFile
             ELSE /\ results' = [cmp EXCEPT !.orphanedTasks = orph,
                                            !.outcome = ap.outcome]
                  /\ syncFile' = ap.file
                  /\ storeOps' = ap.storeOps
                  /\ taskWrites' = ap.writes
                  /\ tasksFile' = ap.tasksFile
  /\ pc' = "pullDone"
  /\ tasks' = tasksFile
  /\ idx' = 0
  /\ calls' = <<>>
  /\ start' = Snapshot
  /\ prev' = NoPrev
  /\ UNCHANGED <<board, nextItemId>>

NextPullLock ==
  \/ PullSync
  \/ PullSyncLockTimeout

SpecPullLock == InitDiff /\ [][NextPullLock]_vars

\* --------------------------------------------- a dry run and then a real run
\* the world some time after task 1 was pushed to item 1: the item is still on
\* the board or was deleted there; a task 3 that was pushed to item 2 is gone
\* from tasks.json or never existed
InitDry ==
  /\ tasksFile = <<SyncedTask(FALSE), Task(Num(2), "B", 0)>>
  /\ \E gone, orphan \in BOOLEAN :
       /\ syncFile =
            LET f == updateSyncedTimestamp(NoFile, 1, SyncedTask(FALSE).id, 1)
            IN IF orphan THEN updateSyncedTimestamp(f, 2, Num(3), 1) ELSE f
       /\ board = [r \in RemoteIds |->
            IF r = 1 /\ ~gone
            THEN NewItem("g2", "A", mapTaskToColumnValues(SyncedTask(FALSE)), 1)
            ELSE IF r = 2 /\ orphan
            THEN NewItem("g2", "C", mapTaskToColumnValues(Task(Num(3), "C", 0)), 1)
            ELSE NoItem]
  /\ nextItemId = 3
  /\ clock = 1
  /\ InitRun
  /\ lockFile = NoLock
  /\ proc = [p \in Procs |-> IdleProc]
  /\ pusher = [p \in Procs |-> IdlePusher]
  /\ InitClient
  /\ tasksCond = "ok"

NextDry ==
  \/ PushStart
  \/ PushTask
  \/ PushOrphans

SpecDry == InitDry /\ [][NextDry]_vars

\* ------------------------------------- the sync state manager, call by call
\* one process calls the functions of the sync state manager one after the
\* other while the file may be deleted or damaged in between
CorruptFile == [exists |-> TRUE, state |-> [parseError |-> TRUE]]
Parses(file) == "parseError" \notin DOMAIN file.state
FileCond(file) ==
  IF ~file.exists THEN "absent" ELSE IF Parses(file) THEN "ok" ELSE "corrupt"

\* the ticks a caller spends in acquireLock before it gives up or finds the
\* lock file stale
LockWaitTicks == (DEFAULT_LOCK_TIMEOUT_MS + TickMs - 1) \div TickMs

ReadOut(st, file, cache, cacheTs, fromCache, waited) ==
  [state |-> st, file |-> file, cache |-> cache, cacheTs |-> cacheTs,
   fromCache |-> fromCache, waited |-> waited, thrown |-> FALSE]

\* readSyncState at time now for a caller with the given cache: the set of
\* its outcomes.  On an absent file the nested writeSyncState stamps lastSync
\* and then waits for the lock readSyncState itself holds: its acquireLock
\* times out (the catch returns a new empty state) or, when one poll passes
\* the timeout test and then finds the lock file older than the timeout,
\* removes the lock as stale and writes.
readSyncState(file, cache, cacheTs, now) ==
  IF cacheTs # 0 /\ (now - cacheTs) * TickMs < CacheTtlMs
  THEN {ReadOut(cache, file, cache, cacheTs, TRUE, 0)}
  ELSE IF ~file.exists
  THEN LET new == [getEmptySyncState EXCEPT !.lastSync = now]
       IN {ReadOut(getEmptySyncState, file, cache, cacheTs, FALSE, LockWaitTicks),
           ReadOut(new, Persisted(getEmptySyncState, now), new,
                   now + LockWaitTicks, FALSE, LockWaitTicks)}
  ELSE IF ~Parses(file)
  THEN {ReadOut(getEmptySyncState, file, cache, cacheTs, FALSE, 0)}
  ELSE {ReadOut(file.state, file, file.state, now, FALSE, 0)}

\* removeSyncedItem's in-memory modification and whether anything existed
removeSyncedItem(s, r) ==
  LET i == ItemsIndex(s.items, r)
      m == MappingIndex(s.taskMappings, r)
  IN IF i # 0 THEN [existed |-> TRUE, state |-> DropItem(s, r)]
     ELSE IF m # 0
     THEN [existed |-> TRUE,
           state |-> [s EXCEPT !.taskMappings = RemoveAt(s.taskMappings, m)]]
     ELSE [existed |-> FALSE, state |-> s]

\* cleanupOldEntries: one mapping taken out together with its index entries
CleanMapping(s, i) ==
  LET mp == s.taskMappings[i]
      r == mp.mondayItemId
      l == mp.taskmasterTaskId
      arr == IF l.n \in DOMAIN s.taskMasterToMonday
             THEN s.taskMasterToMonday[l.n] ELSE <<>>
      k == IndexOf(arr, r)
      arr2 == IF k = 0 THEN arr ELSE RemoveAt(arr, k)
  IN [s EXCEPT
        !.mondayToTaskMaster =
            IF r \in DOMAIN s.mondayToTaskMaster /\ Truthy(s.mondayToTaskMaster[r])
            THEN MapDel(s.mondayToTaskMaster, r) ELSE s.mondayToTaskMaster,
        !.taskMasterToMonday =
            IF k = 0 THEN s.taskMasterToMonday
            ELSE IF Len(arr2) = 0 THEN MapDel(s.taskMasterToMonday, l.n)
            ELSE MapPut(s.taskMasterToMonday, l.n, arr2),
        !.taskMappings = RemoveAt(s.taskMappings, i)]

IsOld(ts, now, maxAge) == now - ts > maxAge

RECURSIVE CleanMappings(_, _, _, _)
CleanMappings(s, i, now, maxAge) ==
  IF i = 0 THEN s
  ELSE IF s.taskMappings[i].timestamp # 0
          /\ IsOld(s.taskMappings[i].timestamp, now, maxAge)
       THEN CleanMappings(CleanMapping(s, i), i - 1, now, maxAge)
       ELSE CleanMappings(s, i - 1, now, maxAge)

cleanupOldEntries(s, now, maxAge) ==
  LET Young(e) == ~IsOld(e.timestamp, now, maxAge)
      kept == SelectSeq(s.items, Young)
      s1 == CleanMappings([s EXCEPT !.items = kept], Len(s.taskMappings),
                          now, maxAge)
  IN [count |-> (Len(s.items) - Len(kept))
                  + (Len(s.taskMappings) - Len(s1.taskMappings)),
      state |-> s1]

MapPairs == {1, 2}
MaxMapClock == 3
MapFrame ==
  UNCHANGED <<tasksFile, board, nextItemId, opts, tasks, idx, calls, storeOps,
              taskWrites, start, prev, lockFile, pusher, tasksCond, clientVars>>
CallResult(op, o, found, ret) ==
  [op |-> op, found |-> found, fromCache |-> o.fromCache, thrown |-> o.thrown,
   returned |-> ret]
\* a call that read the state as o, then, if write, wrote st, and returned ret
AfterCall(op, o, write, st, ret) ==
  LET t == clock + o.waited
  IN /\ t <= MaxMapClock
     /\ clock' = t
     /\ pc' = "storeCall"
     /\ results' = CallResult(op, o, FileCond(syncFile), ret)
     /\ syncFile' = IF write THEN Persisted(st, t) ELSE o.file
     /\ proc' = [proc EXCEPT ![1] =
          IF write THEN [@ EXCEPT !.cache = Persisted(st, t).state, !.cacheTs = t]
          ELSE [@ EXCEPT !.cache = o.cache, !.cacheTs = o.cacheTs]]
     /\ MapFrame

InitMap ==
  /\ tasksFile = <<>>
  /\ syncFile \in {NoFile, CorruptFile, updateSyncedTimestamp(NoFile, 1, Num(1), 1)}
  /\ board = [r \in RemoteIds |-> NoItem]
  /\ nextItemId = 1
  /\ clock = 1
  /\ InitRun
  /\ lockFile = NoLock
  /\ proc = [p \in Procs |-> IdleProc]
  /\ pusher = [p \in Procs |-> IdlePusher]
  /\ InitClient
  /\ tasksCond = "ok"

MapTick ==
  /\ clock < MaxMapClock
  /\ clock' = clock + 1
  /\ UNCHANGED <<syncFile, proc, pc, results>>
  /\ MapFrame

\* the file is deleted or overwritten with text that is not JSON
EnvDamageFile ==
  /\ syncFile.exists /\ Parses(syncFile)
  /\ syncFile' \in {NoFile, CorruptFile}
  /\ UNCHANGED <<clock, proc, pc, results>>
  /\ MapFrame

MapRead ==
  \E o \in readSyncState(syncFile, proc[1].cache, proc[1].cacheTs, clock) :
    AfterCall("readSyncState", o, FALSE, o.state, o.state)

MapUpdate ==
  \E r \in MapPairs, n \in MapPairs :
    \E o \in readSyncState(syncFile, proc[1].cache, proc[1].cacheTs, clock) :
      AfterCall("updateSyncedTimestamp", o, TRUE,
                Upsert(o.state, r, Num(n), clock + o.waited), Undef)

MapRemoveSynced ==
  \E r \in MapPairs :
    \E o \in readSyncState(syncFile, proc[1].cache, proc[1].cacheTs, clock) :
      LET x == removeSyncedItem(o.state, r)
      IN AfterCall("removeSyncedItem", o, x.existed, x.state, x.existed)

MapRemoveMonday ==
  \E r \in MapPairs :
    \E o \in readSyncState(syncFile, proc[1].cache, proc[1].cacheTs, clock) :
      LET has == ItemsIndex(o.state.items, r) # 0
      IN AfterCall("removeMondayItem", o, has,
                   IF has THEN DropItem(o.state, r) ELSE o.state, has)

MapCleanup ==
  \E maxAge \in {0, 1} :
    \E o \in readSyncState(syncFile, proc[1].cache, proc[1].cacheTs, clock) :
      LET x == cleanupOldEntries(o.state, clock + o.waited, maxAge)
      IN AfterCall("cleanupOldEntries", o, x.count > 0, x.state, x.count)

NextMap ==
  \/ MapTick
  \/ EnvDamageFile
  \/ MapRead
  \/ MapUpdate
  \/ MapRemoveSynced
  \/ MapRemoveMonday
  \/ MapCleanup

SpecMap == InitMap /\ [][NextMap]_vars

\* ------------------------------------------- acquireLock and releaseLock
\* Two processes call readSyncState(true) and writeSyncState on a file that
\* exists.  acquireLock's loop is followed attempt by attempt.  The loop makes
\* at most maxAttempts attempts (1000 in the code, 100 ms apart when it waits,
\* so that a loop that only waits meets the timeout long before the limit);
\* here a wait lasts one tick and the limit is MaxAttempts, which a loop that
\* only waits does not reach either.
MaxAttempts == 3
MaxLockOps == 2
MaxLockClock == 4
NoLockId == <<0, 0>>
IdleLocker ==
  [pc |-> "idle", op |-> "none", lockId |-> NoLockId, got |-> NoLockId,
   startTime |-> 0, attempts |-> 0, waitFrom |-> 0, lockSeq |-> 0, threw |-> FALSE,
   ops |-> 0, ended |-> "none"]

InitLock ==
  /\ tasksFile = <<>>
  /\ syncFile \in {updateSyncedTimestamp(NoFile, 1, Num(1), 1), CorruptFile}
  /\ board = [r \in RemoteIds |-> NoItem]
  /\ nextItemId = 1
  /\ clock = 1
  /\ InitRun
  /\ lockFile = NoLock
  /\ proc = [p \in Procs |-> IdleLocker]
  /\ pusher = [p \in Procs |-> IdlePusher]
  /\ InitClient
  /\ tasksCond = "ok"

LockTick ==
  /\ clock < MaxLockClock
  /\ clock' = clock + 1
  /\ UNCHANGED <<syncFile, lockFile, proc>>
  /\ StoreFrame

\* readSyncState(true) or writeSyncState calls acquireLock: a new lock id,
\* the start time, no attempt made yet
LockBegin(p) ==
  /\ proc[p].pc = "idle" /\ proc[p].ops < MaxLockOps
  /\ \E op \in {"read", "write"} :
       proc' = [proc EXCEPT ![p] =
         [@ EXCEPT !.pc = "acquire", !.op = op, !.lockSeq = @ + 1,
                   !.lockId = <<p, proc[p].lockSeq + 1>>, !.got = NoLockId,
                   !.startTime = clock, !.attempts = 0, !.threw = FALSE,
                   !.ops = @ + 1, !.ended = "none"]]
  /\ UNCHANGED <<syncFile, clock, lockFile>>
  /\ StoreFrame

\* how the operation goes on when the loop of acquireLock has ended without
\* a return or a throw inside it: the function returns undefined
loopExhausted(q) == [q EXCEPT !.pc = "locked", !.got = NoLockId]
\* the timeout test of acquireLock
timedOut(q, now) == (now - q.startTime) * TickMs > DEFAULT_LOCK_TIMEOUT_MS

\* one pass of the while loop up to the exclusive create and the timeout
\* test; with the limit reached the loop is left
LockAttempt(p) ==
  /\ proc[p].pc = "acquire"
  /\ IF proc[p].attempts >= MaxAttempts
     THEN /\ proc' = [proc EXCEPT ![p] = loopExhausted(@)]
          /\ UNCHANGED lockFile
     ELSE IF ~lockFile.held
     THEN /\ lockFile' = [held |-> TRUE, id |-> proc[p].lockId, mtime |-> clock]
          /\ proc' = [proc EXCEPT ![p] =
               [@ EXCEPT !.pc = "locked", !.got = proc[p].lockId,
                         !.attempts = @ + 1]]
     ELSE /\ UNCHANGED lockFile
          /\ proc' = [proc EXCEPT ![p] =
               IF timedOut(@, clock)
               THEN [@ EXCEPT !.pc = "idle", !.startTime = 0, !.attempts = 0,
                              !.waitFrom = 0, !.threw = TRUE,
                              !.ended = "acquireThrew"]
               ELSE [@ EXCEPT !.pc = "stat", !.attempts = @ + 1]]
  /\ UNCHANGED <<syncFile, clock>>
  /\ StoreFrame

\* fs.stat of the lock file: gone (continue), stale (unlink and continue) or
\* fresh (wait 100 ms)
LockStat(p) ==
  /\ proc[p].pc = "stat"
  /\ proc' = [proc EXCEPT ![p] =
       IF ~lockFile.held THEN [@ EXCEPT !.pc = "acquire"]
       ELSE IF (clock - lockFile.mtime) * TickMs > DEFAULT_LOCK_TIMEOUT_MS
       THEN [@ EXCEPT !.pc = "unlink"]
       ELSE [@ EXCEPT !.pc = "wait", !.waitFrom = clock]]
  /\ UNCHANGED <<syncFile, clock, lockFile>>
  /\ StoreFrame

\* the wait is over when time has passed
LockWaited(p) ==
  /\ proc[p].pc = "wait" /\ clock > proc[p].waitFrom
  /\ proc' = [proc EXCEPT ![p].pc = "acquire"]
  /\ UNCHANGED <<syncFile, clock, lockFile>>
  /\ StoreFrame

\* fs.unlink of the lock file found stale, whatever the file holds by now
LockUnlinkStale(p) ==
  /\ proc[p].pc = "unlink"
  /\ lockFile' = NoLock
  /\ proc' = [proc EXCEPT ![p].pc = "acquire"]
  /\ UNCHANGED <<syncFile, clock>>
  /\ StoreFrame

\* a locked section that releases only when nothing was thrown
releaseOnSuccessOnly(threw) == IF threw THEN "done" ELSE "release"
\* where the operation goes after its locked section: readSyncState releases
\* in the try block or in the catch block, writeSyncState in the finally
\* block
afterLockedSection(threw) == "release"

\* the locked section: readSyncState reads and parses the file (JSON.parse
\* throws on a corrupt file), writeSyncState moves the temporary file over
\* the file or fails
LockedSection(p) ==
  /\ proc[p].pc = "locked"
  /\ \E fails \in BOOLEAN :
       LET threw == IF proc[p].op = "read" THEN ~Parses(syncFile) ELSE fails
       IN /\ (proc[p].op = "read" => ~fails)
          /\ syncFile' = IF proc[p].op = "write" /\ ~fails
                         THEN Persisted(getEmptySyncState, clock) ELSE syncFile
          /\ proc' = [proc EXCEPT ![p] =
               [@ EXCEPT !.threw = threw, !.pc = afterLockedSection(threw)]]
  /\ UNCHANGED <<clock, lockFile>>
  /\ StoreFrame

\* the operation has ended: readSyncState returns (the empty state after an
\* error), writeSyncState returns or rethrows
lockEnded(q) ==
  [q EXCEPT !.pc = "idle", !.startTime = 0, !.attempts = 0, !.waitFrom = 0,
            !.ended = IF q.threw /\ q.op = "write" THEN "threw" ELSE "returned"]

\* releaseLock finds the lock file gone, or holding another id, or holding
\* the id it was given
mayUnlink(file, lockId) == file.held /\ file.id = lockId

\* releaseLock: read the lock file and compare its content with the lock id
LockRelease(p) ==
  /\ proc[p].pc \in {"release", "done"}
  /\ proc' = [proc EXCEPT ![p] =
       IF @.pc = "release" /\ mayUnlink(lockFile, @.got)
       THEN [@ EXCEPT !.pc = "unlinkOwn"]
       ELSE lockEnded(@)]
  /\ UNCHANGED <<syncFile, clock, lockFile>>
  /\ StoreFrame

\* releaseLock: fs.unlink of the lock file
LockUnlinkOwn(p) ==
  /\ proc[p].pc = "unlinkOwn"
  /\ lockFile' = NoLock
  /\ proc' = [proc EXCEPT ![p] = lockEnded(@)]
  /\ UNCHANGED <<syncFile, clock>>
  /\ StoreFrame

NextLock ==
  \/ LockTick
  \/ \E p \in Procs : LockBegin(p)
  \/ \E p \in Procs : LockAttempt(p)
  \/ \E p \in Procs : LockStat(p)
  \/ \E p \in Procs : LockWaited(p)
  \/ \E p \in Procs : LockUnlinkStale(p)
  \/ \E p \in Procs : LockedSection(p)
  \/ \E p \in Procs : LockRelease(p)
  \/ \E p \in Procs : LockUnlinkOwn(p)

SpecLock == InitLock /\ [][NextLock]_vars

\* ------------------------------- one instance whose persist step may fail
\* One state manager (its cache, its lockTimeoutMs option) reads and upserts
\* the pair (2, "2"); another program holds and drops the lock file, and the
\* temporary-file write or the move of writeSyncState may fail. proc is the
\* record of this one instance.
MaxPersistOps == 3
MaxPersistClock == 4
TestLockTimeoutMs == 1000
OwnLockId == <<1, 1>>
OtherLockId == <<2, 1>>
NothingSeen ==
  [afterFailed |-> FALSE, fromCache |-> FALSE, state |-> getEmptySyncState,
   file |-> getEmptySyncState]
IdleWriter(timeoutMs) ==
  [pc |-> "idle", op |-> "none", phase |-> "r", mem |-> getEmptySyncState,
   cache |-> getEmptySyncState, cacheTs |-> 0, startTime |-> 0,
   lockTimeoutMs |-> timeoutMs, ops |-> 0, ended |-> "none", failed |-> FALSE,
   seen |-> NothingSeen]

\* options.lockTimeoutMs || DEFAULT_LOCK_TIMEOUT_MS
InitPersist ==
  /\ tasksFile = <<Task(Num(1), "A", 0), Task(Num(2), "B", 0)>>
  /\ syncFile \in {Persisted(getEmptySyncState, 1),
                   updateSyncedTimestamp(NoFile, 3, Num(3), 1)}
  /\ board = [r \in RemoteIds |-> NoItem]
  /\ nextItemId = 1
  /\ clock = 1
  /\ InitRun
  /\ lockFile = NoLock
  /\ \E o \in {0, TestLockTimeoutMs} :
       proc = IdleWriter(OrDefault(o, DEFAULT_LOCK_TIMEOUT_MS))
  /\ pusher = [p \in Procs |-> IdlePusher]
  /\ InitClient
  /\ tasksCond = "ok"

PersistTick ==
  /\ clock < MaxPersistClock
  /\ clock' = clock + 1
  /\ UNCHANGED <<syncFile, lockFile, proc>>
  /\ StoreFrame

\* the other program creates the lock file, or removes its own
EnvTakeLock ==
  /\ ~lockFile.held
  /\ lockFile' = [held |-> TRUE, id |-> OtherLockId, mtime |-> clock]
  /\ UNCHANGED <<syncFile, clock, proc>>
  /\ StoreFrame

EnvDropLock ==
  /\ lockFile.held /\ lockFile.id = OtherLockId
  /\ lockFile' = NoLock
  /\ UNCHANGED <<syncFile, clock, proc>>
  /\ StoreFrame

\* the cache test of readSyncState()
cacheFresh(q, now) ==
  q.cacheTs # 0 /\ (now - q.cacheTs) * TickMs < CacheTtlMs

\* what a return of readSyncState leaves behind for the caller to look at
sees(q, st, fromCache, file) ==
  [afterFailed |-> q.failed, fromCache |-> fromCache, state |-> st,
   file |-> StateOf(file)]

\* readSyncState() called by the user, or as the first line of
\* updateSyncedTimestamp: the cached object, or acquireLock
PersistBegin ==
  /\ proc.pc = "idle" /\ proc.ops < MaxPersistOps
  /\ \E op \in {"read", "update"} :
       proc' =
         IF cacheFresh(proc, clock)
         THEN IF op = "read"
              THEN [proc EXCEPT !.op = op, !.ops = @ + 1, !.ended = "returned",
                                !.seen = sees(proc, proc.cache, TRUE, syncFile)]
              ELSE [proc EXCEPT !.op = op, !.ops = @ + 1, !.pc = "modify",
                                !.mem = proc.cache, !.ended = "none"]
         ELSE [proc EXCEPT !.op = op, !.ops = @ + 1, !.pc = "acquire",
                           !.phase = "r", !.startTime = clock, !.ended = "none"]
  /\ UNCHANGED <<syncFile, clock, lockFile>>
  /\ StoreFrame

\* acquireLock: the exclusive create; when the lock file exists, the timeout
\* test, then the removal of a lock file older than the timeout; a fresh lock
\* file is waited for
PersistAcquire ==
  /\ proc.pc = "acquire"
  /\ IF ~lockFile.held
     THEN /\ lockFile' = [held |-> TRUE, id |-> OwnLockId, mtime |-> clock]
          /\ proc' = [proc EXCEPT !.pc = "locked"]
     ELSE IF Elapsed(proc.startTime) > proc.lockTimeoutMs
     THEN /\ UNCHANGED lockFile
          /\ proc' = IF proc.phase = "r"
                     THEN [proc EXCEPT !.pc = "idle", !.ended = "readThrew"]
                     ELSE [proc EXCEPT !.pc = "idle", !.ended = "persistThrew",
                                       !.failed = TRUE]
     ELSE /\ Elapsed(lockFile.mtime) > proc.lockTimeoutMs
          /\ lockFile' = NoLock
          /\ UNCHANGED proc
  /\ UNCHANGED <<syncFile, clock>>
  /\ StoreFrame

\* readSyncState under its lock: the file is read, the lock released, the
\* state read becomes the cache and is returned
PersistReadFile ==
  /\ proc.pc = "locked" /\ proc.phase = "r"
  /\ LET st == StateOf(syncFile)
         q == [proc EXCEPT !.mem = st, !.cache = st, !.cacheTs = clock]
     IN proc' = IF proc.op = "read"
                THEN [q EXCEPT !.pc = "idle", !.ended = "returned",
                               !.seen = sees(proc, st, FALSE, syncFile)]
                ELSE [q EXCEPT !.pc = "modify"]
  /\ lockFile' = NoLock
  /\ UNCHANGED <<syncFile, clock>>
  /\ StoreFrame

\* the object readSyncState returned is the cached object
sharedWithCache(q, st) == st

\* updateSyncedTimestamp changes the state it read, then writeSyncState
\* stamps it and asks for the lock
PersistModify ==
  /\ proc.pc = "modify"
  /\ LET st == [Upsert(proc.mem, 2, Num(2), clock) EXCEPT !.lastSync = clock]
     IN proc' = [proc EXCEPT !.mem = st, !.cache = sharedWithCache(proc, st),
                             !.pc = "acquire", !.phase = "w",
                             !.startTime = clock, !.failed = FALSE]
  /\ UNCHANGED <<syncFile, clock, lockFile>>
  /\ StoreFrame

\* writeSyncState under its lock: the temporary file is written and moved
\* over the file, or one of the two fails and the error is thrown again; the
\* lock is released either way
PersistWrite ==
  /\ proc.pc = "locked" /\ proc.phase = "w"
  /\ \E ok \in BOOLEAN :
       IF ok
       THEN /\ syncFile' = [exists |-> TRUE, state |-> proc.mem]
            /\ proc' = [proc EXCEPT !.pc = "idle", !.cache = proc.mem,
                                    !.cacheTs = clock, !.ended = "returned"]
       ELSE /\ UNCHANGED syncFile
            /\ proc' = [proc EXCEPT !.pc = "idle", !.ended = "persistThrew",
                                    !.failed = TRUE]
  /\ lockFile' = NoLock
  /\ UNCHANGED clock
  /\ StoreFrame

NextPersist ==
  \/ PersistTick
  \/ EnvTakeLock
  \/ EnvDropLock
  \/ PersistBegin
  \/ PersistAcquire
  \/ PersistReadFile
  \/ PersistModify
  \/ PersistWrite

SpecPersist == InitPersist /\ [][NextPersist]_vars

\* ------------------------------------------- the cache of the sync state
\* a readSyncState(true) that would take the flag for absent
readSyncStateIgnoringBypass(file, cache, cacheTs, now) ==
  readSyncState(file, cache, cacheTs, now)

\* readSyncState(true): the cache is not looked at; it is replaced only when
\* the file was read and parsed or the new empty state was written
readSyncStateBypass(file, cache, cacheTs, now) ==
  {IF o.cacheTs = 0 THEN [o EXCEPT !.cache = cache, !.cacheTs = cacheTs] ELSE o :
     o \in readSyncState(file, cache, 0, now)}

\* what a call found when it started, and what it returned
CacheCallResult(op, ret) ==
  [op |-> op, returned |-> ret, file |-> syncFile, cache |-> proc[1].cache,
   cacheTs |-> proc[1].cacheTs, at |-> clock]

\* readSyncState(bypassCache) by the instance of process 1
CacheRead ==
  /\ \E bypass \in BOOLEAN :
       \E o \in IF bypass
                THEN readSyncStateBypass(syncFile, proc[1].cache, proc[1].cacheTs, clock)
                ELSE readSyncState(syncFile, proc[1].cache, proc[1].cacheTs, clock) :
         /\ clock + o.waited <= MaxMapClock
         /\ clock' = clock + o.waited
         /\ results' = CacheCallResult(
                          IF bypass THEN "readSyncState(true)" ELSE "readSyncState",
                          o.state)
         /\ syncFile' = o.file
         /\ proc' = [proc EXCEPT ![1].cache = o.cache, ![1].cacheTs = o.cacheTs]
  /\ pc' = "cacheCall"
  /\ MapFrame

\* clearCache
CacheClear ==
  /\ proc[1].cacheTs # 0
  /\ proc' = [proc EXCEPT ![1].cache = getEmptySyncState, ![1].cacheTs = 0]
  /\ results' = CacheCallResult("clearCache", getEmptySyncState)
  /\ pc' = "cacheCall"
  /\ UNCHANGED <<syncFile, clock>>
  /\ MapFrame

\* updateSyncedTimestamp by the instance: the state is written and cached
CacheUpdate ==
  /\ \E o \in readSyncState(syncFile, proc[1].cache, proc[1].cacheTs, clock) :
       LET t == clock + o.waited
           w == Persisted(Upsert(o.state, 1, Num(1), t), t)
       IN /\ t <= MaxMapClock
          /\ clock' = t
          /\ syncFile' = w
          /\ proc' = [proc EXCEPT ![1].cache = w.state, ![1].cacheTs = t]
          /\ results' = CacheCallResult("updateSyncedTimestamp", w.state)
  /\ pc' = "cacheCall"
  /\ MapFrame

\* another process writes the file
EnvRewriteFile ==
  /\ syncFile' = updateSyncedTimestamp(NoFile, 2, Num(2), clock)
  /\ syncFile' # syncFile
  /\ UNCHANGED <<clock, proc, pc, results>>
  /\ MapFrame

NextCache ==
  \/ MapTick
  \/ EnvDamageFile
  \/ EnvRewriteFile
  \/ CacheRead
  \/ CacheClear
  \/ CacheUpdate

SpecCache == InitMap /\ [][NextCache]_vars

\* ------------------------------------------------- the sweep of old entries
\* what a call read, what it left in memory, what it returned and whether it
\* wrote the file
SweepResult(op, before, after, ret, wrote, now, maxAge) ==
  [op |-> op, before |-> before, after |-> after, returned |-> ret,
   wrote |-> wrote, now |-> now, maxAge |-> maxAge]

SweepCall(op, o, write, st, ret, maxAge) ==
  LET t == clock + o.waited
  IN /\ t <= MaxMapClock
     /\ clock' = t
     /\ pc' = "sweepCall"
     /\ results' = SweepResult(op, o.state, st, ret, write, t, maxAge)
     /\ syncFile' = IF write THEN Persisted(st, t) ELSE o.file
     /\ proc' = [proc EXCEPT ![1] =
          IF write THEN [@ EXCEPT !.cache = Persisted(st, t).state, !.cacheTs = t]
          ELSE [@ EXCEPT !.cache = o.cache, !.cacheTs = o.cacheTs]]
     /\ MapFrame

SweepUpdate ==
  \E r \in MapPairs, n \in MapPairs :
    \E o \in readSyncState(syncFile, proc[1].cache, proc[1].cacheTs, clock) :
      SweepCall("updateSyncedTimestamp", o, TRUE,
                Upsert(o.state, r, Num(n), clock + o.waited), 0, 0)

SweepCleanup ==
  \E maxAge \in {0, 1} :
    \E o \in readSyncState(syncFile, proc[1].cache, proc[1].cacheTs, clock) :
      LET x == cleanupOldEntries(o.state, clock + o.waited, maxAge)
      IN SweepCall("cleanupOldEntries", o, x.count > 0, x.state, x.count, maxAge)

NextSweep ==
  \/ MapTick
  \/ SweepUpdate
  \/ SweepCleanup

SpecSweep == InitMap /\ [][NextSweep]_vars

\* ------------------------------------------- every mutator of the sync state
\* storeUpdateIdForTask: the entry it looks for and writes has the fields
\* taskId, mondayItemId, mondayUpdateId and lastSynced; it has no
\* taskmasterTaskId and no timestamp (undefined: NoId and 0), and nothing is
\* put into items or into the indexes
UpdateIdIndex(tm, l, r) ==
  LET I == {i \in DOMAIN tm : /\ "taskId" \in DOMAIN tm[i]
                               /\ tm[i].taskId = ToStr(l)
                               /\ tm[i].mondayItemId = r}
  IN IF I = {} THEN 0 ELSE CHOOSE i \in I : \A j \in I : i <= j
storeUpdateIdForTask(s, l, r, u, now) ==
  LET i == UpdateIdIndex(s.taskMappings, l, r)
      new == [mondayItemId |-> r, taskmasterTaskId |-> NoId, timestamp |-> 0,
              taskId |-> ToStr(l), mondayUpdateId |-> u, lastSynced |-> now]
  IN [s EXCEPT !.taskMappings =
        IF i = 0 THEN Append(@, new)
        ELSE [@ EXCEPT ![i] = [@ EXCEPT !.mondayUpdateId = u, !.lastSynced = now]]]

\* removeLocalTask: the first entry of items whose taskId is the task; the
\* entry is deleted from items and from nothing else
LocalTaskIndex(items, l) ==
  LET I == {i \in DOMAIN items : "taskId" \in DOMAIN items[i] /\ items[i].taskId = l}
  IN IF I = {} THEN 0 ELSE CHOOSE i \in I : \A j \in I : i <= j
removeLocalTask(s, l) ==
  LET i == LocalTaskIndex(s.items, l)
  IN IF i = 0 THEN [found |-> FALSE, item |-> 0, state |-> s]
     ELSE [found |-> TRUE, item |-> s.items[i].id,
           state |-> [s EXCEPT !.items = RemoveAt(@, i)]]

MapStoreUpdateId ==
  \E l \in {1}, r \in {1} :
    \E o \in readSyncState(syncFile, proc[1].cache, proc[1].cacheTs, clock) :
      AfterCall("storeUpdateIdForTask", o, TRUE,
                storeUpdateIdForTask(o.state, Str(l), r, 1, clock + o.waited), Undef)

MapRemoveLocalTask ==
  \E l \in MapPairs :
    \E o \in readSyncState(syncFile, proc[1].cache, proc[1].cacheTs, clock) :
      LET x == removeLocalTask(o.state, Str(l))
      IN AfterCall("removeLocalTask", o, x.found, x.state, x.item)

NextViews ==
  \/ MapTick
  \/ MapUpdate
  \/ MapRemoveSynced
  \/ MapRemoveMonday
  \/ MapRemoveLocalTask
  \/ MapStoreUpdateId
  \/ MapCleanup

SpecViews == InitMap /\ [][NextViews]_vars

\* ------------------------------------------ the Monday client, call by call
\* Callers add mutations to the batch, flush it and call executeQuery; each
\* monday.api call of a request in flight is a step of its own, so that
\* addToBatch and flushBatch run while a request waits.
RetryChoices == {0, 1, 2}
BatchSize == 2
ClientFrame == UNCHANGED <<worldVars, runVars, lockFile, proc, pusher, tasksCond>>

InitClientCalls ==
  /\ tasksFile = <<>>
  /\ syncFile = NoFile
  /\ board = [r \in RemoteIds |-> NoItem]
  /\ nextItemId = 1
  /\ clock = 1
  /\ InitRun
  /\ lockFile = NoLock
  /\ proc = [p \in Procs |-> IdleProc]
  /\ pusher = [p \in Procs |-> IdlePusher]
  /\ tasksCond = "ok"
  /\ \E m \in RetryChoices :
       clientOpts = createMondayClient([NoOptions EXCEPT !.maxRetries = m,
                                                         !.maxBatchSize = BatchSize])
  /\ batchQueue = <<>>
  /\ handles = [h \in Handles |-> NoHandle]
  /\ requests = <<>>

\* the name a mutation text starts with ("": none, /mutation\s+(\w+)/ fails)
\* and the key flushBatch reads its result under
ResultKeyOfFirst(op) ==
  IF op.query # "" THEN <<op.query, 0>> ELSE <<"Mutation", 0>>
ResultKey(op) ==
  IF op.query # "" THEN <<op.query, op.index>> ELSE <<"Mutation", op.index>>

\* what reaches monday.api for a batch: the mutations renamed name_index, the
\* variables renamed key_index; the texts were appended before their variable
\* references were rewritten, so they still refer to the plain keys
Combined(batch) ==
  [queries |-> [i \in DOMAIN batch |->
                  [name |-> IF batch[i].query # ""
                            THEN <<batch[i].query, batch[i].index>>
                            ELSE <<"">>,
                   refs |-> batch[i].variables]],
   variables |-> UNION {{<<k, batch[i].index>> : k \in batch[i].variables} :
                          i \in DOMAIN batch}]

NewRequest(kind, batch) ==
  [kind |-> kind, batch |-> batch, sent |-> Combined(batch), outcomes |-> <<>>,
   waits |-> <<>>, state |-> "inFlight", error |-> NoError, data |-> {}]

\* the exponential backoff before the attempt that follows attempt number
\* attempt (from 0)
ConstantDelay(delay, attempt) == delay
backoffTime(delay, attempt) == delay * (2 ^ attempt)

\* the value of result.data[key] in the response to request id
Part(id, key) == [req |-> id, key |-> key]

\* flushBatch after executeQuery returned: each promise is resolved with the
\* part under its key, or with null
ResolveBatch(hs, batch, id, data) ==
  [h \in Handles |->
     IF \E i \in DOMAIN batch : batch[i].handle = h
     THEN LET op == batch[CHOOSE i \in DOMAIN batch : batch[i].handle = h]
          IN [state |-> "resolved",
              value |-> IF ResultKey(op) \in data
                        THEN Part(id, ResultKey(op)) ELSE Null,
              error |-> NoError]
     ELSE hs[h]]

\* flushBatch's catch: every promise of the batch is rejected with the error
RejectFirst(hs, batch, error) ==
  [h \in Handles |->
     IF Len(batch) > 0 /\ batch[1].handle = h
     THEN [state |-> "rejected", value |-> Null, error |-> error]
     ELSE hs[h]]
RejectBatch(hs, batch, error) ==
  [h \in Handles |->
     IF \E i \in DOMAIN batch : batch[i].handle = h
     THEN [state |-> "rejected", value |-> Null, error |-> error]
     ELSE hs[h]]

\* a flush that leaves the queue as it found it
keptQueue(queue) == queue
\* flushBatch copies the queue into currentBatch and empties it before it
\* awaits anything
clearedQueue(queue) == <<>>

NextHandle == Cardinality({h \in Handles : handles[h].state # "none"}) + 1

\* addToBatch; a queue that reaches maxBatchSize is flushed at once
AddToBatch ==
  /\ NextHandle <= MaxHandles
  /\ \E q \in {"createItem", ""} :
       LET op == [query |-> q, variables |-> {"itemId"}, handle |-> NextHandle,
                  index |-> Len(batchQueue)]
           queue == Append(batchQueue, op)
       IN /\ handles' = [handles EXCEPT ![NextHandle].state = "pending"]
          /\ IF Len(queue) >= clientOpts.maxBatchSize
             THEN /\ Len(requests) < MaxRequests
                  /\ batchQueue' = clearedQueue(queue)
                  /\ requests' = Append(requests, NewRequest("batch", queue))
             ELSE /\ batchQueue' = queue
                  /\ UNCHANGED requests
  /\ UNCHANGED clientOpts
  /\ ClientFrame

\* flushBatch up to its executeQuery
FlushBatch ==
  /\ Len(batchQueue) > 0
  /\ Len(requests) < MaxRequests
  /\ batchQueue' = clearedQueue(batchQueue)
  /\ requests' = Append(requests, NewRequest("batch", batchQueue))
  /\ UNCHANGED <<clientOpts, handles>>
  /\ ClientFrame

\* executeQuery called directly
ExecuteQuery ==
  /\ Len(requests) < MaxRequests
  /\ requests' = Append(requests, NewRequest("query", <<>>))
  /\ UNCHANGED <<clientOpts, batchQueue, handles>>
  /\ ClientFrame

\* one turn of executeQuery's loop: monday.api answers (data, possibly with
\* errors), answers with errors and no data, or rejects; then the return, the
\* backoff or the final throw, and in flushBatch the promises are settled
ApiAttempt ==
  \E id \in DOMAIN requests :
    /\ requests[id].state = "inFlight"
    /\ \E outcome \in {"data", "errorsWithData", "errorsNoData", "rejected"},
          present \in SUBSET {ResultKey(requests[id].batch[i]) :
                                i \in DOMAIN requests[id].batch} :
         LET rq == requests[id]
             made == Len(rq.outcomes) + 1
             out == Append(rq.outcomes, outcome)
         IN IF outcome \in {"data", "errorsWithData"}
            THEN /\ requests' = [requests EXCEPT ![id] =
                      [rq EXCEPT !.outcomes = out, !.state = "returned",
                                 !.data = present]]
                 /\ handles' = ResolveBatch(handles, rq.batch, id, present)
            ELSE /\ present = {}
                 /\ IF made < clientOpts.maxRetries
                    THEN /\ requests' = [requests EXCEPT ![id] =
                              [rq EXCEPT !.outcomes = out,
                                         !.waits = Append(@,
                                            backoffTime(clientOpts.retryDelayMs,
                                                        made - 1))]]
                         /\ UNCHANGED handles
                    ELSE /\ requests' = [requests EXCEPT ![id] =
                              [rq EXCEPT !.outcomes = out, !.state = "thrown",
                                         !.error = <<outcome, made>>]]
                         /\ handles' = RejectBatch(handles, rq.batch,
                                                   <<outcome, made>>)
    /\ UNCHANGED <<clientOpts, batchQueue>>
    /\ ClientFrame

NextClient ==
  \/ AddToBatch
  \/ FlushBatch
  \/ ExecuteQuery
  \/ ApiAttempt

SpecClient == InitClientCalls /\ [][NextClient]_vars

\* ------------------------------ claims about a push and the tasks file
\* C14: when tasks.json is missing or malformed, pushSync rejects: no run
\* gets under way, nothing is requested from the board and the sync state is
\* not changed.
C14_UnreadableTasksAbort ==
  tasksCond # "ok" =>
     /\ pc \notin {"pushTasks", "pushDone"}
     /\ calls = <<>>
     /\ storeOps = <<>>
     /\ board = start.board
     /\ MappedPairs(StateOf(syncFile)) = MappedPairs(StateOf(start.syncFile))

\* ------------------------------------ claims about the sync state manager
\* C15: a readSyncState that goes to the disk and finds the file missing or
\* not parseable does not throw and returns the empty state: no mappings,
\* empty indexes, lastSync null.
C15_MissingOrCorruptReadsEmpty ==
  (pc = "storeCall" /\ results.op = "readSyncState" /\ ~results.fromCache
     /\ results.found \in {"absent", "corrupt"})
  => (~results.thrown /\ results.returned = getEmptySyncState)

\* the entry list of a state holds the pair (r, l)
HasEntry(s, r, l) ==
  \E i \in DOMAIN s.taskMappings :
    s.taskMappings[i].mondayItemId = r /\ s.taskMappings[i].taskmasterTaskId.n = l

IndexesAgree(s) ==
  \A r \in MapPairs, l \in MapPairs :
    /\ (r \in DOMAIN s.mondayToTaskMaster /\ s.mondayToTaskMaster[r].n = l)
         <=> HasEntry(s, r, l)
    /\ (l \in DOMAIN s.taskMasterToMonday /\ SeqHas(s.taskMasterToMonday[l], r))
         <=> HasEntry(s, r, l)

\* C16: whatever calls were made, the two indexes of the persisted state agree
\* with its list of mappings.
C16_IndexesAgreeWithEntries ==
  (syncFile.exists /\ Parses(syncFile)) => IndexesAgree(syncFile.state)

\* ------------------------------------------- claims about one pull's cases
Fetched(r) == SeqHas(fetchMondayItems(start.board), r)
\* item r names a task that tasks.json did not hold when the pull started
NamesMissingTask(r) ==
  /\ Fetched(r) /\ start.board[r].taskId # 0
  /\ TaskMapGet(start.tasksFile, Str(start.board[r].taskId)) = 0
  /\ opts.specificTaskId \in {0, start.board[r].taskId}
WithId(ts, n) == {i \in DOMAIN ts : ts[i].id.n = n}

\* C17: with recreateMissingTasks, an item that names a task without a local
\* record gives exactly one New record of that id, equal to the item mapped to
\* a task and also listed under Recreated; after a pull that is not a dry run
\* tasks.json holds a record of that id.
C17_MissingTaskRecreated ==
  (PullEnded /\ opts.recreateMissingTasks) =>
     \A r \in RemoteIds : NamesMissingTask(r) =>
        LET n == start.board[r].taskId
            mt == mapItemToTask(r, start.board[r])
        IN /\ Cardinality(WithId(results.newItems, n)) = 1
           /\ SeqHas(results.newItems, mt)
           /\ SeqHas(results.recreatedItems, mt)
           /\ ~opts.dryRun => WithId(tasksFile, n) # {}

\* item r and the local record of its task differ, and the item was modified
\* after the pair was last synced
BothChanged(r) ==
  LET mt == mapItemToTask(r, start.board[r])
      li == TaskMapGet(start.tasksFile, mt.id)
      mi == MondayItemMapGet(start.tasksFile, r)
      last == getLastSyncedTimestamp(StateOf(start.syncFile), r)
  IN /\ Fetched(r) /\ Truthy(mt.id) /\ li # 0
     /\ opts.specificTaskId \in {0, mt.id.n}
     /\ ~(mi # 0 /\ start.tasksFile[mi].id # mt.id)
     /\ tasksAreDifferent(start.tasksFile[li], mt)
     /\ last # 0 /\ start.board[r].updated_at > last

\* C18: an item that differs from its local record and was modified after the
\* last sync of the pair is a Conflict without forceOverwrite and Updated with
\* it (skipConflicts left off).
C18_BothChangedIsConflict ==
  (PullEnded /\ ~opts.skipConflicts) =>
     \A r \in RemoteIds : BothChanged(r) =>
        LET mt == mapItemToTask(r, start.board[r])
        IN IF opts.forceOverwrite
           THEN SeqHas(results.updatedItems, mt) /\ ~SeqHas(results.conflictItems, mt)
           ELSE SeqHas(results.conflictItems, mt) /\ ~SeqHas(results.updatedItems, mt)

\* C20: after a pull with removeOrphaned that is not a dry run, every local
\* record whose monday_item_id was not fetched is reported as orphaned, is gone
\* from tasks.json and has no mapping left in the sync state.
C20_OrphansRemoved ==
  (PullEnded /\ ~opts.dryRun /\ opts.removeOrphaned) =>
     \A i \in DOMAIN start.tasksFile :
        LET t == start.tasksFile[i] IN
        (t.monday_item_id # 0 /\ ~Fetched(t.monday_item_id)) =>
           /\ \E k \in DOMAIN results.orphanedTasks :
                results.orphanedTasks[k].id = t.id
           /\ WithId(tasksFile, t.id.n) = {}
           /\ \A pr \in MappedPairs(StateOf(syncFile)) : pr[1] # t.monday_item_id

\* ------------------------------------------ claims about push then pull
\* the item the record t was pushed to before the pull started (0: none)
PushedTo(t) ==
  LET ids == getMondayItemIdsForTask(StateOf(start.syncFile), t.id)
  IN IF Truthy(t.id) /\ Len(ids) > 0 /\ ItemOnBoard(start.board, ids[1])
     THEN ids[1] ELSE 0

\* C19: a pull that follows the push of a record, nothing having been edited
\* in between, lists that record's item as Unchanged.
C19_PushThenPullUnchanged ==
  PullEnded =>
     \A i \in DOMAIN start.tasksFile :
        LET t == start.tasksFile[i]
            r == PushedTo(t)
        IN (r # 0 /\ opts.specificTaskId \in {0, t.id.n}) =>
             SeqHas(results.unchangedItems, mapItemToTask(r, start.board[r]))

\* ------------------------------------------ claims about the Monday client
BatchRequests == {id \in DOMAIN requests : requests[id].kind = "batch"}
OpsOf(id) == {requests[id].batch[i] : i \in DOMAIN requests[id].batch}
\* the requests that carried the mutation of handle h
RequestsOf(h) == {id \in BatchRequests : \E op \in OpsOf(id) : op.handle = h}

\* C21: when a flush succeeds, each mutation of the batch went out in that one
\* combined executeQuery and in no other, and its promise is resolved with the
\* part of that response stored under its own name and index (null when the
\* response has no such part).
C21_BatchDemultiplexed ==
  \A id \in BatchRequests : requests[id].state = "returned" =>
     \A op \in OpsOf(id) :
        /\ RequestsOf(op.handle) = {id}
        /\ handles[op.handle].state = "resolved"
        /\ LET key == <<IF op.query # "" THEN op.query ELSE "Mutation", op.index>>
           IN handles[op.handle].value =
                IF key \in requests[id].data THEN Part(id, key) ELSE Null

C21_Witness ==
  \E id \in BatchRequests :
     /\ requests[id].state = "returned"
     /\ Len(requests[id].batch) = 2
     /\ requests[id].batch[1].query = requests[id].batch[2].query
     /\ \A op \in OpsOf(id) :
          handles[op.handle].state = "resolved" /\ handles[op.handle].value # Null

\* C22: when the executeQuery of a batch throws, every promise of that batch is
\* rejected with the error thrown; a promise is rejected only by the failure
\* of its own batch, is resolved only by the return of its own batch, and is
\* pending while its mutation is queued or its batch is in flight.
C22_BatchRejectedTogether ==
  /\ \A id \in BatchRequests : requests[id].state = "thrown" =>
       \A op \in OpsOf(id) :
          /\ handles[op.handle].state = "rejected"
          /\ handles[op.handle].error = requests[id].error
  /\ \A h \in Handles :
       /\ handles[h].state = "rejected" =>
            \E id \in RequestsOf(h) : requests[id].state = "thrown"
       /\ handles[h].state = "resolved" =>
            \E id \in RequestsOf(h) : requests[id].state = "returned"
       /\ handles[h].state = "pending" <=>
            \/ \E i \in DOMAIN batchQueue : batchQueue[i].handle = h
            \/ \E id \in RequestsOf(h) : requests[id].state = "inFlight"

C22_Witness ==
  \E id, other \in BatchRequests :
     /\ id # other
     /\ requests[id].state = "thrown" /\ Len(requests[id].batch) = 2
     /\ \A op \in OpsOf(id) : handles[op.handle].state = "rejected"
     /\ requests[other].state = "returned"
     /\ \A op \in OpsOf(other) : handles[op.handle].state = "resolved"

Failed(outcome) == outcome \in {"errorsNoData", "rejected"}

\* C23: executeQuery makes at most maxRetries monday.api calls; every call
\* before the last one made has failed; it has waited retryDelayMs * 2^k after
\* the failure number k (from 0) that was not the last call allowed; it
\* returns at the first call that succeeds and throws the error of the last
\* call when maxRetries calls have failed.
C23_BoundedBackoff ==
  \A id \in DOMAIN requests :
     LET rq == requests[id]
         n == Len(rq.outcomes)
         max == clientOpts.maxRetries
         failures == Cardinality({i \in 1..n : Failed(rq.outcomes[i])})
     IN /\ n <= max
        /\ \A i \in 1..(n - 1) : Failed(rq.outcomes[i])
        /\ Len(rq.waits) = IF failures < max THEN failures ELSE max - 1
        /\ \A k \in DOMAIN rq.waits :
             rq.waits[k] = clientOpts.retryDelayMs * (2 ^ (k - 1))
        /\ rq.state = "returned" <=> (n > 0 /\ ~Failed(rq.outcomes[n]))
        /\ rq.state = "thrown" <=> failures = max
        /\ rq.state = "thrown" => rq.error = <<rq.outcomes[n], n>>

C23_Witness ==
  /\ clientOpts.maxRetries = DEFAULT_MAX_RETRIES
  /\ \E id, other \in DOMAIN requests :
       /\ requests[id].state = "thrown"
       /\ requests[id].waits = <<DEFAULT_RETRY_DELAY_MS, 2 * DEFAULT_RETRY_DELAY_MS>>
       /\ requests[other].state = "returned"
       /\ Len(requests[other].outcomes) = 2

\* ------------------------------------- claims about a push, record by record
\* the items on the board that were not there when the run started
CreatedByRun == {r \in RemoteIds : ItemOnBoard(board, r) /\ ~ItemOnBoard(start.board, r)}

\* C24: when a push that is not a dry run has ended, every item the run
\* created on the board has a mapping in the sync state, also when the write
\* of the mapping failed after the item was created.
C24_CreateAndMapTogether ==
  (pc = "pushDone" /\ opts.kind = "push") =>
     \A r \in CreatedByRun : StoreMentions(StateOf(syncFile), r)

\* the categories a run's results put the local id n in
Categories(res, n) ==
  {c \in {"created", "updated", "recreated", "deleted", "errors"} :
     \E i \in DOMAIN res[c] : res[c][i].taskId.n = n}
\* the errors of the model that stand for a remote call that failed by itself
TransportErrors ==
  {"Failed to create item", "getItem failed", "Failed to update name",
   "Failed to update item column values", "Failed to delete orphaned item"}
\* a real run has ended that started where a dry run (dry for the instance
\* and for the call) had started and ended, and no remote call of it failed
DryThenReal ==
  /\ pc = "pushDone" /\ prev.valid
  /\ prev.opts.instDryRun /\ dryRunOption(prev.opts)
  /\ RealPush(opts)
  /\ prev.opts.deleteOrphaned = opts.deleteOrphaned
  /\ \A i \in DOMAIN results.errors : results.errors[i].error \notin TransportErrors

\* C25: from the same state a dry run and a real run put every local id in
\* the same result categories.
C25_DryRunSameCategories ==
  DryThenReal =>
     \A n \in 1..3 : Categories(prev.results, n) = Categories(results, n)

\* the back-reference tasks.json holds for the local id n, 0 when it has none
BackReference(file, n) ==
  LET I == {i \in DOMAIN file : file[i].id.n = n}
  IN IF I = {} THEN 0 ELSE file[CHOOSE i \in I : \A j \in I : i <= j].monday_item_id

\* C26: when a push that is not a dry run has ended, the record in
\* tasks.json of every task the run created or recreated an item for holds
\* the id of the new item as its monday_item_id.
C26_NewIdsWrittenBack ==
  (pc = "pushDone" /\ RealPush(opts)) =>
     /\ \A i \in DOMAIN results.created :
          BackReference(tasksFile, results.created[i].taskId.n)
            = results.created[i].mondayItemId
     /\ \A i \in DOMAIN results.recreated :
          BackReference(tasksFile, results.recreated[i].taskId.n)
            = results.recreated[i].newMondayItemId

\* ------------------------------------ claims about a pull, item by item
\* C27: without recreateMissingTasks, an item that names a task without a
\* local record is listed neither under New nor under Recreated, and after the
\* pull tasks.json holds no record of that id.
C27_MissingTaskSkipped ==
  (PullEnded /\ ~opts.recreateMissingTasks) =>
     \A r \in RemoteIds : NamesMissingTask(r) =>
        LET n == start.board[r].taskId
        IN /\ WithId(results.newItems, n) = {}
           /\ WithId(results.recreatedItems, n) = {}
           /\ WithId(tasksFile, n) = {}

\* item r names a task that has a local record, and another local record
\* holds r as its monday_item_id
IdentityClash(r) ==
  LET mt == mapItemToTask(r, start.board[r])
  IN /\ Fetched(r) /\ Truthy(mt.id)
     /\ opts.specificTaskId \in {0, mt.id.n}
     /\ TaskMapGet(start.tasksFile, mt.id) # 0
     /\ \E i \in DOMAIN start.tasksFile :
          /\ start.tasksFile[i].monday_item_id = r
          /\ start.tasksFile[i].id.n # mt.id.n

\* C28: an item that names one local record while another local record holds
\* the item's id is listed under Conflict and under nothing else, whatever
\* the options are; the pull leaves tasks.json as it was for the item's task
\* and writes no mapping for the item.
C28_IdentityClashIsConflict ==
  PullEnded =>
     \A r \in RemoteIds : IdentityClash(r) =>
        LET mt == mapItemToTask(r, start.board[r])
        IN /\ SeqHas(results.conflictItems, mt)
           /\ ~SeqHas(results.newItems, mt)
           /\ ~SeqHas(results.updatedItems, mt)
           /\ ~SeqHas(results.unchangedItems, mt)
           /\ \A i \in DOMAIN start.tasksFile :
                start.tasksFile[i].id.n = mt.id.n =>
                  SeqHas(tasksFile, start.tasksFile[i])
           /\ \A k \in DOMAIN storeOps : storeOps[k] # StoreOp("upsert", r)

\* item r names a task that has a local record, and no other local record
\* holds r as its monday_item_id
HasLocalRecord(r) ==
  LET mt == mapItemToTask(r, start.board[r])
  IN /\ Fetched(r) /\ Truthy(mt.id)
     /\ opts.specificTaskId \in {0, mt.id.n}
     /\ TaskMapGet(start.tasksFile, mt.id) # 0
     /\ ~IdentityClash(r)
DepNumbers(t) == {t.dependencies[i].n : i \in DOMAIN t.dependencies}
SameFields(t, mt) ==
  /\ t.title = mt.title /\ t.status = mt.status /\ t.priority = mt.priority
  /\ t.description = mt.description /\ t.details = mt.details
  /\ t.testStrategy = mt.testStrategy
  /\ DepNumbers(t) = DepNumbers(mt)

\* C29: without skipConflicts, an item that has a local record is listed
\* under Unchanged exactly when title, status, priority, description, details
\* and test strategy of the item and of the record are equal and their
\* dependencies are the same set.
C29_UnchangedIffSameFields ==
  (PullEnded /\ ~opts.skipConflicts) =>
     \A r \in RemoteIds : HasLocalRecord(r) =>
        LET mt == mapItemToTask(r, start.board[r])
            t == start.tasksFile[TaskMapGet(start.tasksFile, mt.id)]
        IN SeqHas(results.unchangedItems, mt) <=> SameFields(t, mt)

\* the number of entries of a result list that are the task mt
Occurrences(list, mt) == Cardinality({i \in DOMAIN list : list[i] = mt})
Listings(mt) ==
  Occurrences(results.newItems, mt) + Occurrences(results.updatedItems, mt)
  + Occurrences(results.conflictItems, mt) + Occurrences(results.unchangedItems, mt)

\* C30: after the comparison every fetched item with a Task ID that passes
\* the specificTaskId filter is listed exactly once in newItems, updatedItems,
\* conflictItems and unchangedItems together, every other fetched item is in
\* none of them, and every entry of recreatedItems is in newItems.
C30_ClassificationPartition ==
  PullEnded =>
     /\ \A r \in RemoteIds : Fetched(r) =>
          LET mt == mapItemToTask(r, start.board[r])
          IN Listings(mt) =
               IF Truthy(mt.id) /\ opts.specificTaskId \in {0, mt.id.n} THEN 1 ELSE 0
     /\ \A i \in DOMAIN results.recreatedItems :
          SeqHas(results.newItems, results.recreatedItems[i])

\* the first position in ts of a record with the id of mt, 0 when none
findIndex(ts, mt) ==
  LET I == {i \in DOMAIN ts : ts[i].id.n = mt.id.n}
  IN IF I = {} THEN 0 ELSE CHOOSE i \in I : \A j \in I : i <= j

\* C31: after a pull that applied its changes, every local record listed
\* under Updated is in tasks.json at the position it had before the pull,
\* with the fields of the item and with the subtasks it had before.
C31_OverwriteKeepsSubtasksAndPlace ==
  (PullEnded /\ ~opts.dryRun /\ results.outcome = "ok") =>
     \A k \in DOMAIN results.updatedItems :
        LET mt == results.updatedItems[k]
            j == findIndex(start.tasksFile, mt)
        IN j # 0 =>
             /\ j \in DOMAIN tasksFile
             /\ tasksFile[j] = [mt EXCEPT !.subtasks = start.tasksFile[j].subtasks]

\* ------------------------------------ claims about the sync state manager
\* a state without its lastSync stamp
Unstamped(s) == [s EXCEPT !.lastSync = 0]

\* C32: when readSyncState has found no file and has returned, it returned
\* the empty state, the file exists and holds the empty state, and no lock
\* file is left.
C32_AbsentFileCreated ==
  (pc = "storeCall" /\ results.op = "readSyncState" /\ ~results.fromCache
     /\ results.found = "absent")
  => /\ ~results.thrown
     /\ Unstamped(results.returned) = getEmptySyncState
     /\ syncFile.exists /\ Parses(syncFile)
     /\ Unstamped(syncFile.state) = getEmptySyncState
     /\ lockFile = NoLock

\* the call that ended last started with a cache younger than the TTL
StartedWithCache ==
  results.cacheTs # 0 /\ (results.at - results.cacheTs) * TickMs < CacheTtlMs
\* the call that ended last returned what the file held when it started, the
\* empty state for a file that is absent or does not parse
ReturnedFile ==
  IF results.file.exists /\ Parses(results.file)
  THEN results.returned = results.file.state
  ELSE Unstamped(results.returned) = getEmptySyncState

\* C33: a readSyncState() that starts less than 5 seconds after the instance
\* last loaded or wrote the state returns the cached state whatever the file
\* holds; a readSyncState(true), and a readSyncState() of an instance whose
\* cache was cleared, returns what the file holds.
C33_CacheAndBypass ==
  pc = "cacheCall" =>
     /\ (results.op = "readSyncState" /\ StartedWithCache)
          => results.returned = results.cache
     /\ (results.op = "readSyncState(true)"
            \/ (results.op = "readSyncState" /\ results.cacheTs = 0))
          => ReturnedFile

C33_Witness ==
  /\ pc = "cacheCall" /\ results.op = "readSyncState" /\ StartedWithCache
  /\ results.file.exists /\ Parses(results.file)
  /\ results.returned # results.file.state
  /\ results.returned = updateSyncedTimestamp(NoFile, 1, Num(1), 1).state

\* the timestamp lies more than maxAge before now
Expired(ts, now, maxAge) == now - ts > maxAge
\* the remote ids the reverse index of s lists under some local id
Listed(s) ==
  {r \in MapPairs : \E l \in DOMAIN s.taskMasterToMonday :
                       \E i \in DOMAIN s.taskMasterToMonday[l] :
                          s.taskMasterToMonday[l][i] = r}
ExpiredIds(s, now, maxAge) ==
  {s.items[i].id : i \in {j \in DOMAIN s.items :
                             Expired(s.items[j].timestamp, now, maxAge)}}
  \cup {s.taskMappings[i].mondayItemId :
          i \in {j \in DOMAIN s.taskMappings :
                   Expired(s.taskMappings[j].timestamp, now, maxAge)}}

\* C34: cleanupOldEntries(maxAge) keeps in items and in taskMappings exactly
\* the entries that are not older than maxAge, leaves no removed remote id in
\* either index and leaves the indexes of the other ids as they were, returns
\* the number of entries it took out of items and taskMappings, and writes
\* the file only when that number is not zero.
C34_SweepRemovesExactlyOld ==
  (pc = "sweepCall" /\ results.op = "cleanupOldEntries") =>
     LET b == results.before
         a == results.after
         Young(e) == ~Expired(e.timestamp, results.now, results.maxAge)
         gone == ExpiredIds(b, results.now, results.maxAge)
     IN /\ a.items = SelectSeq(b.items, Young)
        /\ a.taskMappings = SelectSeq(b.taskMappings, Young)
        /\ \A r \in gone : r \notin DOMAIN a.mondayToTaskMaster /\ r \notin Listed(a)
        /\ \A r \in MapPairs \ gone :
             /\ r \in DOMAIN b.mondayToTaskMaster =>
                  /\ r \in DOMAIN a.mondayToTaskMaster
                  /\ a.mondayToTaskMaster[r] = b.mondayToTaskMaster[r]
             /\ r \in Listed(b) => r \in Listed(a)
        /\ results.returned = (Len(b.items) - Len(a.items))
                                + (Len(b.taskMappings) - Len(a.taskMappings))
        /\ results.wrote <=> results.returned > 0

\* items and taskMappings of s hold the same pairs: the same remote ids, each
\* with the same local id and the same timestamp
ViewsAgree(s) ==
  /\ \A i \in DOMAIN s.items :
       \E j \in DOMAIN s.taskMappings :
          /\ s.taskMappings[j].mondayItemId = s.items[i].id
          /\ s.taskMappings[j].taskmasterTaskId.n = s.items[i].taskmasterTaskId.n
          /\ s.taskMappings[j].timestamp = s.items[i].timestamp
  /\ \A j \in DOMAIN s.taskMappings :
       \E i \in DOMAIN s.items :
          /\ s.items[i].id = s.taskMappings[j].mondayItemId
          /\ s.items[i].taskmasterTaskId.n = s.taskMappings[j].taskmasterTaskId.n
          /\ s.items[i].timestamp = s.taskMappings[j].timestamp

\* C35: whatever calls of the mutators were made, items and taskMappings of
\* the persisted state hold the same pairs with the same local id and
\* timestamp.
C35_ItemsAgreeWithMappings ==
  (syncFile.exists /\ Parses(syncFile)) => ViewsAgree(syncFile.state)

\* ------------------------------------------------- claims about the lock
\* C36: when acquireLock returns, the lock file exists and holds the id the
\* call returned; a call that has made all its attempts without creating the
\* lock file does not return.
C36_ReturnMeansHeld ==
  [][\A p \in Procs :
       (proc[p].pc = "acquire" /\ proc'[p].pc = "locked")
       => (lockFile'.held /\ lockFile'.id = proc'[p].got)]_vars

\* ------------------------------------- claims about a failed persist step
\* C37: after an updateSyncedTimestamp whose persist step failed, the next
\* readSyncState of the same instance returns the state last persisted, not
\* the change that was never persisted.
C37_FailedWriteLeavesNoTrace ==
  proc.seen.afterFailed => proc.seen.state = proc.seen.file

\* C38: a lock that readSyncState or writeSyncState acquired is released when
\* the operation has completed, by return or by throw: the lock file no
\* longer holds the id the operation was given.
C38_LockReleasedAtCompletion ==
  \A p \in Procs :
    (proc[p].pc = "idle" /\ proc[p].ended \in {"returned", "threw"}
       /\ proc[p].got # NoLockId)
    => ~(lockFile.held /\ lockFile.id = proc[p].got)

\* an operation that took the lock has thrown in its locked section and has
\* completed, and no lock file is left
C38_Witness ==
  \E p \in Procs :
    /\ proc[p].pc = "idle" /\ proc[p].ended = "threw"
    /\ proc[p].got # NoLockId /\ ~lockFile.held

\* C39: the fs.unlink of releaseLock removes the lock file only while the
\* file holds the id releaseLock was given; it never removes the lock file
\* another holder has created.
C39_ReleaseRemovesOwnLockOnly ==
  [][\A p \in Procs :
       (proc[p].pc = "unlinkOwn" /\ proc'[p].pc # "unlinkOwn" /\ lockFile.held)
       => lockFile.id = proc[p].got]_vars

\* ------------------------------------------ claims about the batch queue
\* the places of the queue, and of the batches sent, that carry handle h
InQueue(h) == {i \in DOMAIN batchQueue : batchQueue[i].handle = h}
SentIn(h) ==
  {<<id, i>> \in BatchRequests \X (1..MaxHandles) :
     i \in DOMAIN requests[id].batch /\ requests[id].batch[i].handle = h}
Settled(h) == handles[h].state \in {"resolved", "rejected"}
\* handle h is in one place only: waiting in the queue with its promise
\* pending, or in one batch, pending while that batch is in flight and
\* settled once it has returned or thrown
PlacedOnce(h) ==
  /\ Cardinality(InQueue(h)) + Cardinality(SentIn(h)) = 1
  /\ InQueue(h) # {} => handles[h].state = "pending"
  /\ \A place \in SentIn(h) :
       Settled(h) <=> requests[place[1]].state \in {"returned", "thrown"}

\* C40: every operation given to addToBatch is sent in one batch only and its
\* promise is settled once, by that batch, also when it was added while an
\* earlier flush was waiting for its answer or when its addition flushed the
\* queue; none is lost from the queue and none is sent twice.
C40_SentOnceSettledOnce ==
  /\ [](\A h \in Handles : handles[h].state # "none" => PlacedOnce(h))
  /\ [][\A h \in Handles : Settled(h) => handles'[h] = handles[h]]_vars

\* an explicit flush of one operation still waits for its answer while the
\* two operations added after it, which flushed the queue by its size, have
\* been sent and settled
C40_Witness ==
  /\ Len(requests) = 2
  /\ requests[1].kind = "batch" /\ requests[1].state = "inFlight"
  /\ Len(requests[1].batch) = 1
  /\ requests[2].kind = "batch" /\ requests[2].state = "returned"
  /\ Len(requests[2].batch) = 2
  /\ \A i \in DOMAIN requests[2].batch : Settled(requests[2].batch[i].handle)
  /\ batchQueue = <<>>

====
